---- MODULE Spec2Model ----
(***************************************************************************)
(* The streaming-audio buffers of backend/voice/audio_utils.py:            *)
(*   VADBuffer   - silence-triggered utterance buffer                      *)
(*   AudioBuffer - fixed-window buffer                                     *)
(*   AudioValidator.is_valid_audio - decode-free admission check           *)
(*                                                                         *)
(* Units.  Wall-clock time (time.perf_counter) is counted in milliseconds. *)
(* Byte counts are exact.  A duration "n / 3200.0" seconds is kept as the  *)
(* byte count n, and compared to a threshold of s seconds as               *)
(* n >= s * 3200, which is the same comparison over the rationals.         *)
(* RMS energy is counted in thousandths of full scale (0.01 is 10).        *)
(*                                                                         *)
(* A fragment is [len, rms]: its byte length and the RMS energy of its     *)
(* 16-bit samples.  A byte string is kept as the sequence of the non-empty *)
(* fragments it was concatenated from.                                     *)
(***************************************************************************)
EXTENDS Integers, Sequences, FiniteSets, TLC

VARIABLES
    buffer,              \* which buffer class the session constructed
    chunks,              \* VADBuffer.chunks
    total_bytes,         \* VADBuffer.total_bytes
    silence_start_time,  \* VADBuffer.silence_start_time (ms, or None)
    has_speech,          \* VADBuffer.has_speech
    ab_chunks,           \* AudioBuffer.chunks
    total_duration,      \* AudioBuffer.total_duration (in 1/3200 s)
    chunk_duration,      \* AudioBuffer.chunk_duration (s)
    max_duration,        \* AudioBuffer.max_duration (s)
    input,               \* the arguments of the AudioValidator call
    now,                 \* time.perf_counter(), in ms
    op,                  \* the operation that produced this state
    ret,                 \* what it returned
    raised,              \* the exception it let escape, or "none"
    calls,               \* the pydub calls it made, in order
    handed,              \* the asset the caller took from get_audio_and_reset()
    stt_model,           \* WhisperSTT.model: WhisperModel, or None
    inflight,            \* the transcribe calls that have not returned
    temp_files,          \* the temporary files that exist
    mm,                  \* ModelManager._stt_model, _tts_model, _models_loaded
    voice_enabled,       \* os.getenv("VOICE_ENABLED", "true").lower() == "true"
    mm_threads,          \* where each thread is in a ModelManager method
    built,               \* models constructed since the last unload_models()
    given                \* models the get methods returned since then

vars == <<buffer, chunks, total_bytes, silence_start_time, has_speech,
          ab_chunks, total_duration, chunk_duration, max_duration, input,
          now, op, ret, raised, calls, handed, stt_model, inflight,
          temp_files, mm, voice_enabled, mm_threads, built, given>>

vad_vars == <<chunks, total_bytes, silence_start_time, has_speech>>

ab_vars == <<ab_chunks, total_duration>>

\* What is fixed when the objects are constructed and the arguments drawn.
fixed_vars == <<buffer, chunk_duration, max_duration, input>>

\* What lives outside the buffers and the validator.
stt_vars == <<stt_model, inflight, temp_files>>

mm_vars == <<mm, voice_enabled, mm_threads, built, given>>

outside_vars == <<handed, stt_vars, mm_vars>>

----------------------------------------------------------------------------
\* Bounds of the exploration.

MaxChunks == 3

MaxNow == 1500

TickSteps == {499, 500}

\* The longest byte string given to bytes_to_base64.
MaxBytes == 4

\* The transcribe calls that can be outstanding at once.
MaxCalls == 2

\* The temporary files that can exist at once.
MaxTemp == 2

\* The models constructed in one run.
MaxLoads == 2

----------------------------------------------------------------------------
\* Program constants (the constructors' defaults).

silence_threshold_ms == 1000

max_duration_s == 6

rms_silence_threshold == 10

BytesPerSecond == 3200

SampleWidth == 2

\* VADBuffer(sample_rate=16000)
sample_rate == 16000

DefaultChunkDuration == 3

DefaultMaxDuration == 60

\* min_duration: float = 0.1, in ms.
DefaultMinDuration == 100

None == -1

\* The object _load_model stores in self.model.
WhisperModel == 1

\* A class attribute that "del" has removed and nothing has set again.
Absent == -2

----------------------------------------------------------------------------
\* Fragments the transport may deliver.

Empty == [len |-> 0, rms |-> 0]

Odd == [len |-> 6399, rms |-> 0]

Quiet == [len |-> 9600, rms |-> 1]

Edge == [len |-> 3200, rms |-> 10]

Loud == [len |-> 6400, rms |-> 500]

Fragments == {Empty, Odd, Quiet, Edge, Loud}

----------------------------------------------------------------------------
\* Decoded audio (pydub.AudioSegment): the frame rate and channel count of
\* the stream the bytes hold, and the number of frames.

Segment(rate, chans, frames) ==
    [frame_rate |-> rate, channels |-> chans, frame_count |-> frames]

SourceRates == {16000, 48000}

SourceChannels == {1, 2}

Segments == {Segment(r, c, 48000) : r \in SourceRates, c \in SourceChannels}

\* What pydub can do in one flush, one record per distinguishable course:
\* the "auto" decode is not tried when the "webm" decode succeeded, nothing
\* is exported when nothing was decoded, and the decoded stream shows only
\* in what a successful export returns.
DecodeOutcomes ==
    {o \in [webm_ok : BOOLEAN, auto_ok : BOOLEAN, export_ok : BOOLEAN,
            audio : Segments] :
        /\ o.webm_ok => o.auto_ok
        /\ ~o.auto_ok => ~o.export_ok
        /\ ~o.export_ok => o.audio = Segment(sample_rate, 1, 48000)}

----------------------------------------------------------------------------
\* Return values.

NoRet == [kind |-> "none"]

BoolRet(b) == [kind |-> "bool", val |-> b]

IntRet(n) == [kind |-> "int", val |-> n]

FloatRet(n, d) == [kind |-> "float", num |-> n, den |-> d]

RawBytes(b) == [kind |-> "raw", data |-> b]

\* The WAV an export writes keeps the frame rate and the channel count of
\* the segment it was given.
WavBytes(b, strategy, audio) ==
    [kind |-> "wav", data |-> b, via |-> strategy,
     frame_rate |-> audio.frame_rate, channels |-> audio.channels]

----------------------------------------------------------------------------
\* b''.join(chunks): the fragments' bytes, in list order.

bytes_of(f) == IF f.len = 0 THEN <<>> ELSE <<f>>

RECURSIVE join(_)
join(cs) == IF cs = <<>> THEN <<>> ELSE bytes_of(Head(cs)) \o join(Tail(cs))

\* pydub calls.  Whether a byte string decodes, what segment the decode
\* yields, and whether the export of a decoded segment succeeds, is decided
\* outside this code: the outcome of each call is an input of the operation
\* that makes it.

from_file(b, fmt, ok) == [fn |-> "from_file", format |-> fmt, input |-> b, ok |-> ok]

export(b, ok) == [fn |-> "export", format |-> "wav", input |-> b, ok |-> ok]

----------------------------------------------------------------------------
\* VADBuffer

VADBuffer_init ==
    [chunks |-> <<>>, total_bytes |-> 0, silence_start_time |-> None,
     has_speech |-> FALSE]

\* Mutants of _is_silence: the except branch answers True; an inclusive
\* threshold.
is_silence_fail_closed(f) ==
    IF f.len % SampleWidth # 0 THEN TRUE
    ELSE IF f.len \div SampleWidth = 0 THEN TRUE
    ELSE f.rms < rms_silence_threshold

is_silence_inclusive(f) ==
    IF f.len % SampleWidth # 0 THEN FALSE
    ELSE IF f.len \div SampleWidth = 0 THEN TRUE
    ELSE f.rms <= rms_silence_threshold

\* np.frombuffer(.., dtype=int16) raises on a length that is no multiple of
\* the sample width; the except branch answers False.
is_silence(f) ==
    IF f.len % SampleWidth # 0 THEN FALSE
    ELSE IF f.len \div SampleWidth = 0 THEN TRUE
    ELSE f.rms < rms_silence_threshold

\* Mutants of add_chunk: a speech fragment leaves the silence run pending;
\* has_speech follows the last fragment; every silence fragment restarts the
\* run.
add_chunk_keeps_run(self, f, t) ==
    LET appended == [self EXCEPT !.chunks = Append(@, f),
                                 !.total_bytes = @ + f.len]
    IN  IF is_silence(f)
        THEN IF appended.silence_start_time = None
             THEN [appended EXCEPT !.silence_start_time = t]
             ELSE appended
        ELSE [appended EXCEPT !.has_speech = TRUE]

add_chunk_last_fragment(self, f, t) ==
    LET appended == [self EXCEPT !.chunks = Append(@, f),
                                 !.total_bytes = @ + f.len]
    IN  IF is_silence(f)
        THEN IF appended.silence_start_time = None
             THEN [appended EXCEPT !.silence_start_time = t,
                                   !.has_speech = FALSE]
             ELSE [appended EXCEPT !.has_speech = FALSE]
        ELSE [appended EXCEPT !.silence_start_time = None,
                              !.has_speech = TRUE]

add_chunk_restarts_run(self, f, t) ==
    LET appended == [self EXCEPT !.chunks = Append(@, f),
                                 !.total_bytes = @ + f.len]
    IN  IF is_silence(f)
        THEN [appended EXCEPT !.silence_start_time = t]
        ELSE [appended EXCEPT !.silence_start_time = None,
                              !.has_speech = TRUE]

\* Mutant of add_chunk: "if not self.silence_start_time" where the code has
\* "is None", so a run that began at time 0 counts as no run.
add_chunk_falsy_test(self, f, t) ==
    LET appended == [self EXCEPT !.chunks = Append(@, f),
                                 !.total_bytes = @ + f.len]
    IN  IF is_silence(f)
        THEN IF appended.silence_start_time = None
                \/ appended.silence_start_time = 0
             THEN [appended EXCEPT !.silence_start_time = t]
             ELSE appended
        ELSE [appended EXCEPT !.silence_start_time = None,
                              !.has_speech = TRUE]

\* Mutant of add_chunk: the silence run is counted from the end of the last
\* speech fragment.
add_chunk_speech_starts_run(self, f, t) ==
    LET appended == [self EXCEPT !.chunks = Append(@, f),
                                 !.total_bytes = @ + f.len]
    IN  IF is_silence(f)
        THEN IF appended.silence_start_time = None
             THEN [appended EXCEPT !.silence_start_time = t]
             ELSE appended
        ELSE [appended EXCEPT !.silence_start_time = t,
                              !.has_speech = TRUE]

\* Mutant of add_chunk: an empty fragment is classified but not stored.
add_chunk_drops_empty(self, f, t) ==
    LET appended == IF f.len = 0 THEN self
                    ELSE [self EXCEPT !.chunks = Append(@, f),
                                      !.total_bytes = @ + f.len]
    IN  IF is_silence(f)
        THEN IF appended.silence_start_time = None
             THEN [appended EXCEPT !.silence_start_time = t]
             ELSE appended
        ELSE [appended EXCEPT !.silence_start_time = None,
                              !.has_speech = TRUE]

\* Mutant of add_chunk: the fragment is put in front of the buffered ones.
add_chunk_prepends(self, f, t) ==
    LET appended == [self EXCEPT !.chunks = <<f>> \o @,
                                 !.total_bytes = @ + f.len]
    IN  IF is_silence(f)
        THEN IF appended.silence_start_time = None
             THEN [appended EXCEPT !.silence_start_time = t]
             ELSE appended
        ELSE [appended EXCEPT !.silence_start_time = None,
                              !.has_speech = TRUE]

add_chunk(self, f, t) ==
    LET appended == [self EXCEPT !.chunks = Append(@, f),
                                 !.total_bytes = @ + f.len]
    IN  IF is_silence(f)
        THEN IF appended.silence_start_time = None
             THEN [appended EXCEPT !.silence_start_time = t]
             ELSE appended
        ELSE [appended EXCEPT !.silence_start_time = None,
                              !.has_speech = TRUE]

\* Mutants of should_trigger: no has_speech gate; no max-duration backstop;
\* an exclusive silence bound; an exclusive duration bound.
should_trigger_late_backstop(self, t) ==
    IF ~self.has_speech THEN FALSE
    ELSE IF /\ self.silence_start_time # None
            /\ t - self.silence_start_time >= silence_threshold_ms
         THEN TRUE
    ELSE IF self.total_bytes > max_duration_s * BytesPerSecond THEN TRUE
    ELSE FALSE

should_trigger_no_gate(self, t) ==
    IF /\ self.silence_start_time # None
       /\ t - self.silence_start_time >= silence_threshold_ms
    THEN TRUE
    ELSE IF self.total_bytes >= max_duration_s * BytesPerSecond THEN TRUE
    ELSE FALSE

should_trigger_no_backstop(self, t) ==
    IF ~self.has_speech THEN FALSE
    ELSE IF /\ self.silence_start_time # None
            /\ t - self.silence_start_time >= silence_threshold_ms
         THEN TRUE
    ELSE FALSE

should_trigger_exclusive(self, t) ==
    IF ~self.has_speech THEN FALSE
    ELSE IF /\ self.silence_start_time # None
            /\ t - self.silence_start_time > silence_threshold_ms
         THEN TRUE
    ELSE IF self.total_bytes >= max_duration_s * BytesPerSecond THEN TRUE
    ELSE FALSE

\* Mutant of should_trigger: the duration is looked at only while no silence
\* run is pending.
should_trigger_backstop_unless_silence(self, t) ==
    IF ~self.has_speech THEN FALSE
    ELSE IF self.silence_start_time # None
         THEN t - self.silence_start_time >= silence_threshold_ms
    ELSE IF self.total_bytes >= max_duration_s * BytesPerSecond THEN TRUE
    ELSE FALSE

should_trigger(self, t) ==
    IF ~self.has_speech THEN FALSE
    ELSE IF /\ self.silence_start_time # None
            /\ t - self.silence_start_time >= silence_threshold_ms
         THEN TRUE
    ELSE IF self.total_bytes >= max_duration_s * BytesPerSecond THEN TRUE
    ELSE FALSE

\* Mutant of clear: has_speech survives the reset.
VADBuffer_clear_keeps_speech(self) ==
    [self EXCEPT !.chunks = <<>>, !.total_bytes = 0,
                 !.silence_start_time = None]

VADBuffer_clear(self) ==
    [self EXCEPT !.chunks = <<>>, !.total_bytes = 0,
                 !.silence_start_time = None, !.has_speech = FALSE]

\* Mutant of get_audio_and_reset: the reset is skipped when the conversion
\* fails.
get_audio_and_reset_stuck(self, webm_ok, auto_ok, export_ok, audio) ==
    IF self.chunks = <<>>
    THEN [self |-> self, ret |-> RawBytes(<<>>), raised |-> "none",
          calls |-> <<>>]
    ELSE LET combined_bytes == join(self.chunks)
             webm == from_file(combined_bytes, "webm", webm_ok)
             auto == from_file(combined_bytes, "auto", auto_ok)
             decodes == IF webm_ok THEN <<webm>> ELSE <<webm, auto>>
             decoded == webm_ok \/ auto_ok
             via == IF webm_ok THEN "webm" ELSE "auto"
             made == IF decoded
                     THEN Append(decodes, export(combined_bytes, export_ok))
                     ELSE decodes
         IN  IF decoded /\ export_ok
             THEN [self |-> VADBuffer_clear(self),
                   ret |-> WavBytes(combined_bytes, via, audio),
                   raised |-> "none", calls |-> made]
             ELSE [self |-> self, ret |-> RawBytes(join(self.chunks)),
                   raised |-> "none", calls |-> made]

\* A reference to the list self.chunks itself, not to a bytes object built
\* from it: what its holder reads changes with the buffer.
ListRef == [kind |-> "list"]

\* Mutant of get_audio_and_reset: the fallback returns the list of fragments
\* itself, which clear() then empties in place.
get_audio_and_reset_returns_list(self, webm_ok, auto_ok, export_ok, audio) ==
    IF self.chunks = <<>>
    THEN [self |-> self, ret |-> RawBytes(<<>>), raised |-> "none",
          calls |-> <<>>]
    ELSE LET combined_bytes == join(self.chunks)
             webm == from_file(combined_bytes, "webm", webm_ok)
             auto == from_file(combined_bytes, "auto", auto_ok)
             decodes == IF webm_ok THEN <<webm>> ELSE <<webm, auto>>
             decoded == webm_ok \/ auto_ok
             via == IF webm_ok THEN "webm" ELSE "auto"
             made == IF decoded
                     THEN Append(decodes, export(combined_bytes, export_ok))
                     ELSE decodes
             wav_bytes == IF decoded /\ export_ok
                          THEN WavBytes(combined_bytes, via, audio)
                          ELSE ListRef
         IN  [self |-> VADBuffer_clear(self), ret |-> wav_bytes,
              raised |-> "none", calls |-> made]

\* The result of get_audio_and_reset: the object afterwards, the value
\* returned, the exception that escapes and the pydub calls made.
get_audio_and_reset(self, webm_ok, auto_ok, export_ok, audio) ==
    IF self.chunks = <<>>
    THEN [self |-> self, ret |-> RawBytes(<<>>), raised |-> "none",
          calls |-> <<>>]
    ELSE LET combined_bytes == join(self.chunks)
             webm == from_file(combined_bytes, "webm", webm_ok)
             auto == from_file(combined_bytes, "auto", auto_ok)
             decodes == IF webm_ok THEN <<webm>> ELSE <<webm, auto>>
             decoded == webm_ok \/ auto_ok
             via == IF webm_ok THEN "webm" ELSE "auto"
             made == IF decoded
                     THEN Append(decodes, export(combined_bytes, export_ok))
                     ELSE decodes
             wav_bytes == IF decoded /\ export_ok
                          THEN WavBytes(combined_bytes, via, audio)
                          ELSE RawBytes(join(self.chunks))
         IN  [self |-> VADBuffer_clear(self), ret |-> wav_bytes,
              raised |-> "none", calls |-> made]

VADBuffer_get_duration(self) == FloatRet(self.total_bytes, BytesPerSecond)

VADBuffer_get_chunk_count(self) == IntRet(Len(self.chunks))

----------------------------------------------------------------------------
\* AudioBuffer

AudioBuffer_init(chunk_dur, max_dur) ==
    [chunk_duration |-> chunk_dur, max_duration |-> max_dur,
     chunks |-> <<>>, total_duration |-> 0]

\* Mutant of add: the estimate of the last fragment replaces the running
\* total.
add_overwrites_duration(self, f) ==
    [self EXCEPT !.chunks = Append(@, f), !.total_duration = f.len]

\* Mutant of add: an empty fragment is not stored.
add_skips_empty(self, f) ==
    IF f.len = 0 THEN self
    ELSE [self EXCEPT !.chunks = Append(@, f), !.total_duration = @ + f.len]

add(self, f) ==
    [self EXCEPT !.chunks = Append(@, f), !.total_duration = @ + f.len]

\* Mutant of is_ready: an exclusive bound.
is_ready_exclusive(self) ==
    self.total_duration > self.chunk_duration * BytesPerSecond

is_ready(self) == self.total_duration >= self.chunk_duration * BytesPerSecond

is_full(self) == self.total_duration >= self.max_duration * BytesPerSecond

\* Mutant of get_audio: automatic detection is tried whether or not the
\* WebM decode succeeded.
get_audio_always_auto(self, webm_ok, auto_ok, export_ok, audio) ==
    IF self.chunks = <<>>
    THEN [self |-> self, ret |-> RawBytes(<<>>), raised |-> "none",
          calls |-> <<>>]
    ELSE LET combined_bytes == join(self.chunks)
             webm == from_file(combined_bytes, "webm", webm_ok)
             auto == from_file(combined_bytes, "auto", auto_ok)
             decodes == <<webm, auto>>
             decoded == auto_ok
             made == IF decoded
                     THEN Append(decodes, export(combined_bytes, export_ok))
                     ELSE decodes
         IN  [self |-> self,
              ret |-> IF decoded /\ export_ok
                      THEN WavBytes(combined_bytes, "auto", audio)
                      ELSE RawBytes(join(self.chunks)),
              raised |-> "none", calls |-> made]

\* Mutant of get_audio: the buffer is emptied by the read.
get_audio_drains(self, webm_ok, auto_ok, export_ok, audio) ==
    IF self.chunks = <<>>
    THEN [self |-> self, ret |-> RawBytes(<<>>), raised |-> "none",
          calls |-> <<>>]
    ELSE LET combined_bytes == join(self.chunks)
             webm == from_file(combined_bytes, "webm", webm_ok)
             auto == from_file(combined_bytes, "auto", auto_ok)
             decodes == IF webm_ok THEN <<webm>> ELSE <<webm, auto>>
             decoded == webm_ok \/ auto_ok
             via == IF webm_ok THEN "webm" ELSE "auto"
             made == IF decoded
                     THEN Append(decodes, export(combined_bytes, export_ok))
                     ELSE decodes
         IN  [self |-> [self EXCEPT !.chunks = <<>>, !.total_duration = 0],
              ret |-> IF decoded /\ export_ok
                      THEN WavBytes(combined_bytes, via, audio)
                      ELSE RawBytes(join(self.chunks)),
              raised |-> "none", calls |-> made]

get_audio(self, webm_ok, auto_ok, export_ok, audio) ==
    IF self.chunks = <<>>
    THEN [self |-> self, ret |-> RawBytes(<<>>), raised |-> "none",
          calls |-> <<>>]
    ELSE LET combined_bytes == join(self.chunks)
             webm == from_file(combined_bytes, "webm", webm_ok)
             auto == from_file(combined_bytes, "auto", auto_ok)
             decodes == IF webm_ok THEN <<webm>> ELSE <<webm, auto>>
             decoded == webm_ok \/ auto_ok
             via == IF webm_ok THEN "webm" ELSE "auto"
             made == IF decoded
                     THEN Append(decodes, export(combined_bytes, export_ok))
                     ELSE decodes
         IN  [self |-> self,
              ret |-> IF decoded /\ export_ok
                      THEN WavBytes(combined_bytes, via, audio)
                      ELSE RawBytes(join(self.chunks)),
              raised |-> "none", calls |-> made]

\* Mutant of clear: the estimate is reset and the fragments are kept.
AudioBuffer_clear_keeps_chunks(self) == [self EXCEPT !.total_duration = 0]

AudioBuffer_clear(self) == [self EXCEPT !.chunks = <<>>, !.total_duration = 0]

AudioBuffer_get_duration(self) == FloatRet(self.total_duration, BytesPerSecond)

AudioBuffer_get_chunk_count(self) == IntRet(Len(self.chunks))

----------------------------------------------------------------------------
\* AudioValidator

\* Mutant of is_valid_audio: no test for an empty fragment.
is_valid_audio_no_empty_test(f, min_duration) ==
    LET min_bytes == (min_duration * BytesPerSecond) \div 1000
    IN  f.len >= min_bytes

\* min_duration is in ms; int(min_duration * 3200) truncates.
is_valid_audio(f, min_duration) ==
    IF f.len = 0 THEN FALSE
    ELSE LET min_bytes == (min_duration * BytesPerSecond) \div 1000
         IN  f.len >= min_bytes

\* An asset is [len, format]: its byte length and the format its bytes
\* decode as ("none" when no decoder accepts them).  allowed_formats is
\* [given, formats]; given is FALSE for the default None.
DefaultFormats == {"wav", "mp3", "webm", "ogg"}

\* Mutant of validate_format: the decode error escapes.
validate_format_raises(audio_bytes, allowed_formats) ==
    LET loaded == from_file(audio_bytes, "auto", audio_bytes.format # "none")
    IN  IF loaded.ok
        THEN [ret |-> BoolRet(TRUE), raised |-> "none", calls |-> <<loaded>>]
        ELSE [ret |-> NoRet, raised |-> "CouldntDecodeError",
              calls |-> <<loaded>>]

validate_format(audio_bytes, allowed_formats) ==
    LET allowed == IF ~allowed_formats.given THEN DefaultFormats
                   ELSE allowed_formats.formats
        loaded == from_file(audio_bytes, "auto", audio_bytes.format # "none")
    IN  IF loaded.ok
        THEN [ret |-> BoolRet(TRUE), raised |-> "none", calls |-> <<loaded>>]
        ELSE [ret |-> BoolRet(FALSE), raised |-> "none", calls |-> <<loaded>>]

----------------------------------------------------------------------------
\* AudioProcessor

\* base64.  A byte is a number in 0..255 and a byte string a sequence of
\* them; a character of the encoding is the index of its letter in the
\* base64 alphabet (0..63), or Pad for "=".
Pad == 64

StrRet(s) == [kind |-> "str", str |-> s]

BytesRet(b) == [kind |-> "bytes", data |-> b]

\* base64.b64encode: three bytes make four letters; a last group of one or
\* two bytes is padded to four characters.
RECURSIVE b64encode(_)
b64encode(b) ==
    IF Len(b) = 0 THEN <<>>
    ELSE IF Len(b) = 1
    THEN <<b[1] \div 4, (b[1] % 4) * 16, Pad, Pad>>
    ELSE IF Len(b) = 2
    THEN <<b[1] \div 4, (b[1] % 4) * 16 + b[2] \div 16, (b[2] % 16) * 4, Pad>>
    ELSE <<b[1] \div 4, (b[1] % 4) * 16 + b[2] \div 16,
           (b[2] % 16) * 4 + b[3] \div 64, b[3] % 64>>
         \o b64encode(SubSeq(b, 4, Len(b)))

\* The bytes of a sequence of letters: four letters make three bytes, a last
\* group of two or three letters one or two bytes.
RECURSIVE letters_to_bytes(_)
letters_to_bytes(d) ==
    IF Len(d) < 2 THEN <<>>
    ELSE IF Len(d) = 2 THEN <<d[1] * 4 + d[2] \div 16>>
    ELSE IF Len(d) = 3
    THEN <<d[1] * 4 + d[2] \div 16, (d[2] % 16) * 16 + d[3] \div 4>>
    ELSE <<d[1] * 4 + d[2] \div 16, (d[2] % 16) * 16 + d[3] \div 4,
           (d[3] % 4) * 64 + d[4]>>
         \o letters_to_bytes(SubSeq(d, 5, Len(d)))

\* base64.b64decode of a string whose padding, if any, is at its end:
\* [ok, data]; not ok is binascii.Error ("Incorrect padding").
b64decode(s) ==
    LET letters == SelectSeq(s, LAMBDA c : c < Pad)
        pads == Len(s) - Len(letters)
        r == Len(letters) % 4
        ok == \/ r = 0
              \/ r = 2 /\ pads >= 2
              \/ r = 3 /\ pads >= 1
    IN  [ok |-> ok, data |-> IF ok THEN letters_to_bytes(letters) ELSE <<>>]

\* Mutant of bytes_to_base64: the padding is stripped.
bytes_to_base64_unpadded(audio_bytes) ==
    [ret |-> StrRet(SelectSeq(b64encode(audio_bytes), LAMBDA c : c < Pad)),
     raised |-> "none"]

\* b64encode yields ASCII bytes, so .decode('utf-8') cannot fail.
bytes_to_base64(audio_bytes) ==
    [ret |-> StrRet(b64encode(audio_bytes)), raised |-> "none"]

base64_to_bytes(base64_str) ==
    LET decoded == b64decode(base64_str)
    IN  IF decoded.ok
        THEN [ret |-> BytesRet(decoded.data), raised |-> "none"]
        ELSE [ret |-> NoRet, raised |-> "ValueError"]

\* resample_audio.  WAV bytes are [wav, segment]: whether
\* AudioSegment.from_wav accepts them and the segment they hold.
WavAudio(audio) ==
    [kind |-> "wav", frame_rate |-> audio.frame_rate,
     channels |-> audio.channels, frame_count |-> audio.frame_count]

\* AudioSegment.set_frame_rate: the same segment when the rate is the
\* segment's; otherwise the frames are converted to the new rate.
set_frame_rate(audio, rate) ==
    IF rate = audio.frame_rate THEN audio
    ELSE [audio EXCEPT !.frame_rate = rate,
                       !.frame_count = (@ * rate) \div audio.frame_rate]

set_channels(audio, chans) == [audio EXCEPT !.channels = chans]

\* Mutant of resample_audio: no downmix.
resample_audio_keeps_channels(audio_bytes, target_sample_rate, export_ok) ==
    IF ~audio_bytes.wav
    THEN [ret |-> NoRet, raised |-> "CouldntDecodeError",
          calls |-> <<[fn |-> "from_wav", ok |-> FALSE]>>]
    ELSE LET audio == audio_bytes.segment
             differs == audio.frame_rate # target_sample_rate
             resampled == IF differs
                          THEN set_frame_rate(audio, target_sample_rate)
                          ELSE audio
             made == <<[fn |-> "from_wav", ok |-> TRUE]>>
                     \o (IF differs THEN <<[fn |-> "set_frame_rate"]>> ELSE <<>>)
                     \o <<[fn |-> "export", ok |-> export_ok]>>
         IN  IF export_ok
             THEN [ret |-> WavAudio(resampled), raised |-> "none",
                   calls |-> made]
             ELSE [ret |-> NoRet, raised |-> "Exception", calls |-> made]

resample_audio(audio_bytes, target_sample_rate, export_ok) ==
    IF ~audio_bytes.wav
    THEN [ret |-> NoRet, raised |-> "CouldntDecodeError",
          calls |-> <<[fn |-> "from_wav", ok |-> FALSE]>>]
    ELSE LET audio == audio_bytes.segment
             differs == audio.frame_rate # target_sample_rate
             resampled == IF differs
                          THEN set_frame_rate(audio, target_sample_rate)
                          ELSE audio
             stereo == resampled.channels > 1
             mono == IF stereo THEN set_channels(resampled, 1) ELSE resampled
             made == <<[fn |-> "from_wav", ok |-> TRUE]>>
                     \o (IF differs THEN <<[fn |-> "set_frame_rate"]>> ELSE <<>>)
                     \o (IF stereo THEN <<[fn |-> "set_channels"]>> ELSE <<>>)
                     \o <<[fn |-> "export", ok |-> export_ok]>>
         IN  IF export_ok
             THEN [ret |-> WavAudio(mono), raised |-> "none", calls |-> made]
             ELSE [ret |-> NoRet, raised |-> "Exception", calls |-> made]

----------------------------------------------------------------------------
\* WhisperSTT.  transcribe and transcribe_sync have the same body; transcribe
\* is a coroutine that awaits nothing, so all of it runs on the thread of the
\* event loop that awaits it.

Transcript == [kind |-> "transcript"]

\* tempfile.NamedTemporaryFile picks a name no file has.
fresh_path(files) ==
    CHOOSE n \in 1..(Cardinality(files) + 1) :
        /\ n \notin files
        /\ \A m \in 1..(Cardinality(files) + 1) : m \notin files => n <= m

\* From the call to the model's transcribe: the test of self.model and the
\* temporary file.  temp is what becomes of the file: "written", "no_file"
\* (it could not be created) or "write_failed" (created, the write raised).
transcribe_begin(model, temp, files) ==
    IF model = None
    THEN [raised |-> "RuntimeError", invoked |-> FALSE, temp_path |-> None,
          temp_files |-> files]
    ELSE IF temp = "no_file"
    THEN [raised |-> "OSError", invoked |-> FALSE, temp_path |-> None,
          temp_files |-> files]
    ELSE IF temp = "write_failed"
    THEN [raised |-> "OSError", invoked |-> FALSE, temp_path |-> None,
          temp_files |-> files \cup {fresh_path(files)}]
    ELSE [raised |-> "none", invoked |-> TRUE,
          temp_path |-> fresh_path(files),
          temp_files |-> files \cup {fresh_path(files)}]

\* Mutant of transcribe_end: a failed inference is tried once more.
transcribe_end_retries(temp_path, error, unlink_ok, files) ==
    LET left == IF unlink_ok THEN files \ {temp_path} ELSE files
        first == [fn |-> "model.transcribe", ok |-> error = "none",
                  error |-> error]
    IN  IF error = "none"
        THEN [ret |-> Transcript, raised |-> "none", calls |-> <<first>>,
              temp_files |-> left]
        ELSE [ret |-> Transcript, raised |-> "none",
              calls |-> <<first, [fn |-> "model.transcribe", ok |-> TRUE,
                                  error |-> "none"]>>,
              temp_files |-> left]

\* From the model's transcribe to the return: error is the exception the
\* model raised while transcribing or yielding segments, or "none"; the
\* finally clause unlinks the file and ignores a failure to do so.
transcribe_end(temp_path, error, unlink_ok, files) ==
    LET left == IF unlink_ok THEN files \ {temp_path} ELSE files
        invoked == [fn |-> "model.transcribe", ok |-> error = "none",
                    error |-> error]
    IN  IF error = "none"
        THEN [ret |-> Transcript, raised |-> "none", calls |-> <<invoked>>,
              temp_files |-> left]
        ELSE [ret |-> NoRet, raised |-> error, calls |-> <<invoked>>,
              temp_files |-> left]

----------------------------------------------------------------------------
\* The state machine.

VAD ==
    [chunks |-> chunks, total_bytes |-> total_bytes,
     silence_start_time |-> silence_start_time, has_speech |-> has_speech]

AB ==
    [chunk_duration |-> chunk_duration, max_duration |-> max_duration,
     chunks |-> ab_chunks, total_duration |-> total_duration]

NoInput == [kind |-> "none"]

SetVAD(s) ==
    /\ chunks' = s.chunks
    /\ total_bytes' = s.total_bytes
    /\ silence_start_time' = s.silence_start_time
    /\ has_speech' = s.has_speech

SetAB(s) ==
    /\ ab_chunks' = s.chunks
    /\ total_duration' = s.total_duration

Returns(name, value) ==
    /\ op' = name
    /\ ret' = value
    /\ raised' = "none"
    /\ calls' = <<>>

NotHanded == [kind |-> "none"]

\* No transcribe call has been made.
NoCall == [pc |-> "none"]

CallIds == 1..MaxCalls

\* A thread that is in no ModelManager method.
Idling == [pc |-> "idle"]

Threads == {"t1", "t2"}

\* The class attributes as the class statement sets them; nothing is
\* constructed.
ManagerInit ==
    /\ mm = [stt |-> None, tts |-> None, models_loaded |-> FALSE]
    /\ mm_threads = [t \in Threads |-> Idling]
    /\ built = [stt |-> 0, tts |-> 0, total |-> 0]
    /\ given = [stt |-> {}, tts |-> {}]

OutsideInit ==
    /\ handed = NotHanded
    /\ stt_model = WhisperModel
    /\ inflight = [c \in CallIds |-> NoCall]
    /\ temp_files = {}
    /\ ManagerInit
    /\ voice_enabled = TRUE

Init ==
    /\ buffer \in {"vad", "fixed"}
    /\ chunks = VADBuffer_init.chunks
    /\ total_bytes = VADBuffer_init.total_bytes
    /\ silence_start_time = VADBuffer_init.silence_start_time
    /\ has_speech = VADBuffer_init.has_speech
    /\ chunk_duration = DefaultChunkDuration
    /\ max_duration = DefaultMaxDuration
    /\ ab_chunks = AudioBuffer_init(chunk_duration, max_duration).chunks
    /\ total_duration = AudioBuffer_init(chunk_duration, max_duration).total_duration
    /\ input = NoInput
    /\ now = 0
    /\ op = "__init__"
    /\ ret = NoRet
    /\ raised = "none"
    /\ calls = <<>>
    /\ OutsideInit

\* The clock advances between calls.
Tick ==
    /\ \E d \in TickSteps : now + d <= MaxNow /\ now' = now + d
    /\ Returns("tick", NoRet)
    /\ UNCHANGED <<fixed_vars, outside_vars, vad_vars, ab_vars>>

AddChunk ==
    /\ buffer = "vad"
    /\ Len(chunks) < MaxChunks
    /\ \E f \in Fragments : SetVAD(add_chunk(VAD, f, now))
    /\ Returns("add_chunk", NoRet)
    /\ UNCHANGED <<fixed_vars, outside_vars, ab_vars, now>>

\* Mutant of ShouldTrigger: a true answer consumes the pending silence run.
ShouldTrigger_consumes_run ==
    /\ buffer = "vad"
    /\ Returns("should_trigger", BoolRet(should_trigger(VAD, now)))
    /\ silence_start_time' =
          (IF should_trigger(VAD, now) THEN None ELSE silence_start_time)
    /\ UNCHANGED <<fixed_vars, outside_vars, chunks, total_bytes, has_speech,
                   ab_vars, now>>

ShouldTrigger ==
    /\ buffer = "vad"
    /\ Returns("should_trigger", BoolRet(should_trigger(VAD, now)))
    /\ UNCHANGED <<fixed_vars, outside_vars, vad_vars, ab_vars, now>>

GetAudioAndReset ==
    /\ buffer = "vad"
    /\ \E o \in DecodeOutcomes :
          LET r == get_audio_and_reset(VAD, o.webm_ok, o.auto_ok, o.export_ok, o.audio)
          IN  /\ SetVAD(r.self)
              /\ op' = "get_audio_and_reset"
              /\ ret' = r.ret
              /\ raised' = r.raised
              /\ calls' = r.calls
    /\ UNCHANGED <<fixed_vars, outside_vars, ab_vars, now>>

Clear ==
    /\ buffer = "vad"
    /\ SetVAD(VADBuffer_clear(VAD))
    /\ Returns("clear", NoRet)
    /\ UNCHANGED <<fixed_vars, outside_vars, ab_vars, now>>

GetDuration ==
    /\ buffer = "vad"
    /\ Returns("get_duration", VADBuffer_get_duration(VAD))
    /\ UNCHANGED <<fixed_vars, outside_vars, vad_vars, ab_vars, now>>

GetChunkCount ==
    /\ buffer = "vad"
    /\ Returns("get_chunk_count", VADBuffer_get_chunk_count(VAD))
    /\ UNCHANGED <<fixed_vars, outside_vars, vad_vars, ab_vars, now>>

\* Mutant of Add: the duration of the fragment is taken from a decode of
\* the fragment.
Add_decodes ==
    /\ buffer = "fixed"
    /\ Len(ab_chunks) < MaxChunks
    /\ \E f \in Fragments, ok \in BOOLEAN :
          /\ SetAB(add(AB, f))
          /\ calls' = <<from_file(bytes_of(f), "auto", ok)>>
    /\ op' = "add"
    /\ ret' = NoRet
    /\ raised' = "none"
    /\ UNCHANGED <<fixed_vars, outside_vars, vad_vars, now>>

Add ==
    /\ buffer = "fixed"
    /\ Len(ab_chunks) < MaxChunks
    /\ \E f \in Fragments : SetAB(add(AB, f))
    /\ Returns("add", NoRet)
    /\ UNCHANGED <<fixed_vars, outside_vars, vad_vars, now>>

IsReady ==
    /\ buffer = "fixed"
    /\ Returns("is_ready", BoolRet(is_ready(AB)))
    /\ UNCHANGED <<fixed_vars, outside_vars, vad_vars, ab_vars, now>>

GetAudio ==
    /\ buffer = "fixed"
    /\ \E o \in DecodeOutcomes :
          LET r == get_audio(AB, o.webm_ok, o.auto_ok, o.export_ok, o.audio)
          IN  /\ SetAB(r.self)
              /\ op' = "get_audio"
              /\ ret' = r.ret
              /\ raised' = r.raised
              /\ calls' = r.calls
    /\ UNCHANGED <<fixed_vars, outside_vars, vad_vars, now>>

IsFull ==
    /\ buffer = "fixed"
    /\ Returns("is_full", BoolRet(is_full(AB)))
    /\ UNCHANGED <<fixed_vars, outside_vars, vad_vars, ab_vars, now>>

ABClear ==
    /\ buffer = "fixed"
    /\ SetAB(AudioBuffer_clear(AB))
    /\ Returns("AudioBuffer.clear", NoRet)
    /\ UNCHANGED <<fixed_vars, outside_vars, vad_vars, now>>

ABGetDuration ==
    /\ buffer = "fixed"
    /\ Returns("AudioBuffer.get_duration", AudioBuffer_get_duration(AB))
    /\ UNCHANGED <<fixed_vars, outside_vars, vad_vars, ab_vars, now>>

ABGetChunkCount ==
    /\ buffer = "fixed"
    /\ Returns("AudioBuffer.get_chunk_count", AudioBuffer_get_chunk_count(AB))
    /\ UNCHANGED <<fixed_vars, outside_vars, vad_vars, ab_vars, now>>

IsValidAudio ==
    /\ \E f \in Fragments :
          Returns("is_valid_audio",
                  BoolRet(is_valid_audio(f, DefaultMinDuration)))
    /\ UNCHANGED <<fixed_vars, outside_vars, vad_vars, ab_vars, now>>

Next ==
    \/ Tick
    \/ AddChunk
    \/ ShouldTrigger
    \/ GetAudioAndReset
    \/ Clear
    \/ GetDuration
    \/ GetChunkCount
    \/ Add
    \/ IsReady
    \/ GetAudio
    \/ IsFull
    \/ ABClear
    \/ ABGetDuration
    \/ ABGetChunkCount
    \/ IsValidAudio

Spec == Init /\ [][Next]_vars

----------------------------------------------------------------------------
\* The fixed-window buffer alone, under every configuration of the two
\* thresholds drawn from ChunkDurations and MaxDurations.

ChunkDurations == {0, 2, 3}

MaxDurations == {2, 3, 60}

InitAB ==
    /\ buffer = "fixed"
    /\ chunks = VADBuffer_init.chunks
    /\ total_bytes = VADBuffer_init.total_bytes
    /\ silence_start_time = VADBuffer_init.silence_start_time
    /\ has_speech = VADBuffer_init.has_speech
    /\ chunk_duration \in ChunkDurations
    /\ max_duration \in MaxDurations
    /\ ab_chunks = AudioBuffer_init(chunk_duration, max_duration).chunks
    /\ total_duration = AudioBuffer_init(chunk_duration, max_duration).total_duration
    /\ input = NoInput
    /\ now = 0
    /\ op = "__init__"
    /\ ret = NoRet
    /\ raised = "none"
    /\ calls = <<>>
    /\ OutsideInit

NextAB ==
    \/ Add
    \/ IsReady
    \/ IsFull
    \/ GetAudio
    \/ ABClear
    \/ ABGetDuration
    \/ ABGetChunkCount

SpecAB == InitAB /\ [][NextAB]_vars

----------------------------------------------------------------------------
\* AudioValidator alone: the arguments are drawn at the start and each
\* method is applied to them.

ValidatorLengths == {0, 1, 2, 3, 4, 319, 320, 321, 1600}

MinDurations == {0, 1, 100, 500}

Assets ==
    {[len |-> 0, format |-> "none"], [len |-> 1600, format |-> "none"],
     [len |-> 1600, format |-> "wav"], [len |-> 1600, format |-> "flac"]}

AllowedFormats ==
    {[given |-> FALSE, formats |-> {}], [given |-> TRUE, formats |-> {"wav"}],
     [given |-> TRUE, formats |-> {"flac", "wav"}]}

InitValidator ==
    /\ buffer = "none"
    /\ chunks = VADBuffer_init.chunks
    /\ total_bytes = VADBuffer_init.total_bytes
    /\ silence_start_time = VADBuffer_init.silence_start_time
    /\ has_speech = VADBuffer_init.has_speech
    /\ chunk_duration = DefaultChunkDuration
    /\ max_duration = DefaultMaxDuration
    /\ ab_chunks = AudioBuffer_init(chunk_duration, max_duration).chunks
    /\ total_duration = AudioBuffer_init(chunk_duration, max_duration).total_duration
    /\ \E n \in ValidatorLengths, d \in MinDurations, a \in Assets,
          fs \in AllowedFormats :
          input = [fragment |-> [len |-> n, rms |-> 0], min_duration |-> d,
                   audio_bytes |-> a, allowed_formats |-> fs]
    /\ now = 0
    /\ op = "__init__"
    /\ ret = NoRet
    /\ raised = "none"
    /\ calls = <<>>
    /\ OutsideInit

IsValidAudioOf ==
    /\ Returns("is_valid_audio",
               BoolRet(is_valid_audio(input.fragment, input.min_duration)))
    /\ UNCHANGED <<fixed_vars, outside_vars, vad_vars, ab_vars, now>>

ValidateFormat ==
    /\ LET r == validate_format(input.audio_bytes, input.allowed_formats)
       IN  /\ op' = "validate_format"
           /\ ret' = r.ret
           /\ raised' = r.raised
           /\ calls' = r.calls
    /\ UNCHANGED <<fixed_vars, outside_vars, vad_vars, ab_vars, now>>

NextValidator ==
    \/ IsValidAudioOf
    \/ ValidateFormat

SpecValidator == InitValidator /\ [][NextValidator]_vars

----------------------------------------------------------------------------
\* AudioProcessor alone: the arguments are drawn at the start and each
\* method is applied to them.

ByteValues == {0, 77, 255}

ByteStrings == UNION {[1..k -> ByteValues] : k \in 0..MaxBytes}

WavRates == {8000, 16000, 44100, 48000}

WavChannels == {1, 2, 6}

WavFrames == {0, 1, 16000, 44100}

TargetRates == {8000, 16000, 48000}

WavInputs ==
    {[wav |-> TRUE, segment |-> Segment(r, c, n)] :
        r \in WavRates, c \in WavChannels, n \in WavFrames}
    \cup {[wav |-> FALSE, segment |-> Segment(0, 0, 0)]}

ProcessorInputs ==
    {[kind |-> "base64", audio_bytes |-> b] : b \in ByteStrings}
    \cup {[kind |-> "resample", audio_bytes |-> w, target_sample_rate |-> t] :
             w \in WavInputs, t \in TargetRates}

InitProcessor ==
    /\ buffer = "none"
    /\ chunks = VADBuffer_init.chunks
    /\ total_bytes = VADBuffer_init.total_bytes
    /\ silence_start_time = VADBuffer_init.silence_start_time
    /\ has_speech = VADBuffer_init.has_speech
    /\ chunk_duration = DefaultChunkDuration
    /\ max_duration = DefaultMaxDuration
    /\ ab_chunks = AudioBuffer_init(chunk_duration, max_duration).chunks
    /\ total_duration = AudioBuffer_init(chunk_duration, max_duration).total_duration
    /\ input \in ProcessorInputs
    /\ now = 0
    /\ op = "__init__"
    /\ ret = NoRet
    /\ raised = "none"
    /\ calls = <<>>
    /\ OutsideInit

BytesToBase64 ==
    /\ input.kind = "base64"
    /\ LET r == bytes_to_base64(input.audio_bytes)
       IN  /\ op' = "bytes_to_base64"
           /\ ret' = r.ret
           /\ raised' = r.raised
           /\ calls' = <<>>
    /\ UNCHANGED <<fixed_vars, outside_vars, vad_vars, ab_vars, now>>

\* base64_to_bytes, given the string bytes_to_base64 returned or that string
\* without its last character.
Base64ToBytes ==
    /\ input.kind = "base64"
    /\ op = "bytes_to_base64"
    /\ \E base64_str \in
            {ret.str} \cup (IF ret.str = <<>> THEN {}
                            ELSE {SubSeq(ret.str, 1, Len(ret.str) - 1)}) :
          LET r == base64_to_bytes(base64_str)
          IN  /\ op' = "base64_to_bytes"
              /\ ret' = r.ret
              /\ raised' = r.raised
              /\ calls' = <<[fn |-> "b64decode", input |-> base64_str]>>
    /\ UNCHANGED <<fixed_vars, outside_vars, vad_vars, ab_vars, now>>

ResampleAudio ==
    /\ input.kind = "resample"
    /\ \E export_ok \in BOOLEAN :
          LET r == resample_audio(input.audio_bytes, input.target_sample_rate,
                                  export_ok)
          IN  /\ op' = "resample_audio"
              /\ ret' = r.ret
              /\ raised' = r.raised
              /\ calls' = r.calls
    /\ UNCHANGED <<fixed_vars, outside_vars, vad_vars, ab_vars, now>>

NextProcessor ==
    \/ BytesToBase64
    \/ Base64ToBytes
    \/ ResampleAudio

SpecProcessor == InitProcessor /\ [][NextProcessor]_vars

----------------------------------------------------------------------------
\* The activity buffer and the caller that takes the assembled audio from
\* it: audio = buffer.get_audio_and_reset().

HandOver ==
    /\ buffer = "vad"
    /\ op = "get_audio_and_reset"
    /\ handed' = ret
    /\ Returns("hand_over", NoRet)
    /\ UNCHANGED <<fixed_vars, stt_vars, mm_vars, vad_vars, ab_vars, now>>

\* add_chunk, on the fragments of this specification.
HandOverFragments == {Empty, Quiet, Loud}

AddNextChunk ==
    /\ buffer = "vad"
    /\ Len(chunks) < MaxChunks
    /\ \E f \in HandOverFragments : SetVAD(add_chunk(VAD, f, now))
    /\ Returns("add_chunk", NoRet)
    /\ UNCHANGED <<fixed_vars, outside_vars, ab_vars, now>>

InitHandOver ==
    /\ Init
    /\ buffer = "vad"

NextHandOver ==
    \/ AddNextChunk
    \/ GetAudioAndReset
    \/ Clear
    \/ HandOver

SpecHandOver == InitHandOver /\ [][NextHandOver]_vars

----------------------------------------------------------------------------
\* The activity buffer fed with fragments long enough to pass
\* max_duration_s while there is still room for more of them.

\* Four seconds of speech.
Long == [len |-> 12800, rms |-> 500]

BackstopFragments == {Quiet, Loud, Long}

AddLongChunk ==
    /\ buffer = "vad"
    /\ Len(chunks) < MaxChunks
    /\ \E f \in BackstopFragments : SetVAD(add_chunk(VAD, f, now))
    /\ Returns("add_chunk", NoRet)
    /\ UNCHANGED <<fixed_vars, outside_vars, ab_vars, now>>

InitBackstop ==
    /\ Init
    /\ buffer = "vad"

NextBackstop ==
    \/ Tick
    \/ AddLongChunk
    \/ ShouldTrigger
    \/ GetAudioAndReset
    \/ Clear

SpecBackstop == InitBackstop /\ [][NextBackstop]_vars

----------------------------------------------------------------------------
\* One session: the ingestion path, which runs on the event loop, the
\* boundary that hands a finalized asset to the transcription service, and
\* the STT engine.

STTFragments == {Quiet, Loud}

ModelErrors == {"none", "ModelError"}

Outstanding == {c \in CallIds : inflight[c].pc # "none"}

\* The event loop's thread is inside a call.
LoopBusy == \E c \in Outstanding : inflight[c].thread = "loop"

thread_of(api) == IF api = "transcribe" THEN "loop" ELSE "worker"

\* add_chunk, called on the event loop's thread.
Ingest ==
    /\ buffer = "vad"
    /\ ~LoopBusy
    /\ Len(chunks) < MaxChunks
    /\ \E f \in STTFragments : SetVAD(add_chunk(VAD, f, now))
    /\ Returns("add_chunk", NoRet)
    /\ UNCHANGED <<fixed_vars, outside_vars, ab_vars, now>>

\* Mutant of Dispatch: no test for an outstanding call.
Dispatch_unguarded ==
    /\ buffer = "vad"
    /\ ~LoopBusy
    /\ Outstanding # CallIds
    /\ should_trigger(VAD, now)
    /\ \E api \in {"transcribe", "transcribe_sync"},
          webm_ok, auto_ok, export_ok \in BOOLEAN, audio \in Segments :
          LET r == get_audio_and_reset(VAD, webm_ok, auto_ok, export_ok, audio)
              c == CHOOSE c \in CallIds \ Outstanding :
                       \A d \in CallIds \ Outstanding : c <= d
          IN  /\ SetVAD(r.self)
              /\ inflight' = [inflight EXCEPT ![c] =
                                [pc |-> "called", api |-> api,
                                 thread |-> thread_of(api),
                                 audio_bytes |-> r.ret, temp_path |-> None]]
              /\ op' = "dispatch"
              /\ ret' = r.ret
              /\ raised' = r.raised
              /\ calls' = r.calls
    /\ UNCHANGED <<fixed_vars, handed, stt_model, temp_files, mm_vars,
                   ab_vars, now>>

\* The boundary: when the buffer has triggered and no transcription of the
\* session is outstanding, assemble the utterance and call the engine,
\* transcribe awaited on the event loop or transcribe_sync on a worker
\* thread.
Dispatch ==
    /\ buffer = "vad"
    /\ ~LoopBusy
    /\ Outstanding = {}
    /\ should_trigger(VAD, now)
    /\ \E api \in {"transcribe", "transcribe_sync"},
          webm_ok, auto_ok, export_ok \in BOOLEAN, audio \in Segments :
          LET r == get_audio_and_reset(VAD, webm_ok, auto_ok, export_ok, audio)
              c == CHOOSE c \in CallIds \ Outstanding :
                       \A d \in CallIds \ Outstanding : c <= d
          IN  /\ SetVAD(r.self)
              /\ inflight' = [inflight EXCEPT ![c] =
                                [pc |-> "called", api |-> api,
                                 thread |-> thread_of(api),
                                 audio_bytes |-> r.ret, temp_path |-> None]]
              /\ op' = "dispatch"
              /\ ret' = r.ret
              /\ raised' = r.raised
              /\ calls' = r.calls
    /\ UNCHANGED <<fixed_vars, handed, stt_model, temp_files, mm_vars,
                   ab_vars, now>>

TranscribeBegin ==
    /\ \E c \in CallIds, temp \in {"written", "no_file", "write_failed"} :
          /\ inflight[c].pc = "called"
          /\ Cardinality(temp_files) < MaxTemp
          /\ LET r == transcribe_begin(stt_model, temp, temp_files)
             IN  /\ temp_files' = r.temp_files
                 /\ IF r.invoked
                    THEN /\ inflight' = [inflight EXCEPT
                                           ![c].pc = "inference",
                                           ![c].temp_path = r.temp_path]
                         /\ op' = "model.transcribe"
                    ELSE /\ inflight' = [inflight EXCEPT ![c] = NoCall]
                         /\ op' = inflight[c].api
                 /\ ret' = NoRet
                 /\ raised' = r.raised
                 /\ calls' = <<>>
    /\ UNCHANGED <<fixed_vars, handed, stt_model, mm_vars, vad_vars, ab_vars,
                   now>>

TranscribeEnd ==
    /\ \E c \in CallIds, error \in ModelErrors, unlink_ok \in BOOLEAN :
          /\ inflight[c].pc = "inference"
          /\ LET r == transcribe_end(inflight[c].temp_path, error, unlink_ok,
                                     temp_files)
             IN  /\ temp_files' = r.temp_files
                 /\ inflight' = [inflight EXCEPT ![c] = NoCall]
                 /\ op' = inflight[c].api
                 /\ ret' = r.ret
                 /\ raised' = r.raised
                 /\ calls' = r.calls
    /\ UNCHANGED <<fixed_vars, handed, stt_model, mm_vars, vad_vars, ab_vars,
                   now>>

\* self.model is None only when it was cleared from outside: __init__
\* returns only once _load_model has set it.
InitSTT ==
    /\ buffer = "vad"
    /\ chunks = VADBuffer_init.chunks
    /\ total_bytes = VADBuffer_init.total_bytes
    /\ silence_start_time = VADBuffer_init.silence_start_time
    /\ has_speech = VADBuffer_init.has_speech
    /\ chunk_duration = DefaultChunkDuration
    /\ max_duration = DefaultMaxDuration
    /\ ab_chunks = AudioBuffer_init(chunk_duration, max_duration).chunks
    /\ total_duration = AudioBuffer_init(chunk_duration, max_duration).total_duration
    /\ input = NoInput
    /\ now = 0
    /\ op = "__init__"
    /\ ret = NoRet
    /\ raised = "none"
    /\ calls = <<>>
    /\ handed = NotHanded
    /\ stt_model \in {WhisperModel, None}
    /\ inflight = [c \in CallIds |-> NoCall]
    /\ temp_files = {}
    /\ ManagerInit
    /\ voice_enabled = TRUE

NextSTT ==
    \/ Ingest
    \/ Dispatch
    \/ TranscribeBegin
    \/ TranscribeEnd

SpecSTT == InitSTT /\ [][NextSTT]_vars

----------------------------------------------------------------------------
\* ModelManager, its class methods called from the threads of Threads.  A
\* thread runs one method at a time; between two steps of a thread the
\* other may run.  A model is the number of its construction.

Kinds == {"stt", "tts"}

ModelRet(v) == [kind |-> "model", val |-> v]

Goto(t, th) == mm_threads' = [mm_threads EXCEPT ![t] = th]

Running == Returns("running", NoRet)

Raises(name, exc) ==
    /\ op' = name
    /\ ret' = NoRet
    /\ raised' = exc
    /\ calls' = <<>>

\* The method whose caller gets what a step of the thread returns or raises.
method_of(th) ==
    IF th.preload THEN "preload_models"
    ELSE IF th.kind = "stt" THEN "get_stt_model" ELSE "get_tts_model"

manager_frame ==
    <<fixed_vars, handed, stt_vars, vad_vars, ab_vars, now, voice_enabled>>

\* get_stt_model() / get_tts_model() is called.
CallGet ==
    /\ \E t \in Threads, k \in Kinds :
          /\ mm_threads[t].pc = "idle"
          /\ Goto(t, [pc |-> "check", kind |-> k, preload |-> FALSE,
                      local |-> None])
    /\ Running
    /\ UNCHANGED <<mm, built, given, manager_frame>>

\* Mutant of CallPreload: no voice check, the models are loaded at once.
CallPreload_unchecked ==
    /\ \E t \in Threads :
          /\ mm_threads[t].pc = "idle"
          /\ Goto(t, [pc |-> "construct", kind |-> "stt",
                      preload |-> TRUE, local |-> None])
    /\ Running
    /\ UNCHANGED <<mm, built, given, manager_frame>>

\* preload_models() is called: it returns at once when voice is disabled
\* and calls get_stt_model() otherwise.
CallPreload ==
    /\ \E t \in Threads :
          /\ mm_threads[t].pc = "idle"
          /\ IF voice_enabled
             THEN /\ Goto(t, [pc |-> "check", kind |-> "stt",
                              preload |-> TRUE, local |-> None])
                  /\ Running
             ELSE /\ UNCHANGED mm_threads
                  /\ Returns("preload_models", NoRet)
    /\ UNCHANGED <<mm, built, given, manager_frame>>

\* unload_models() is called.
CallUnload ==
    /\ \E t \in Threads :
          /\ mm_threads[t].pc = "idle"
          /\ Goto(t, [pc |-> "unload_test", kind |-> "stt",
                      preload |-> FALSE, local |-> None])
    /\ Running
    /\ UNCHANGED <<mm, built, given, manager_frame>>

\* if not cls.is_voice_enabled(): return None
\* if cls._stt_model is None: ...
GetCheck ==
    /\ \E t \in Threads :
          LET th == mm_threads[t]
          IN  /\ th.pc = "check"
              /\ IF ~voice_enabled /\ ~th.preload
                 THEN /\ Goto(t, Idling)
                      /\ Returns(method_of(th), ModelRet(None))
                 ELSE IF ~voice_enabled /\ th.kind = "stt"
                 THEN /\ Goto(t, [th EXCEPT !.kind = "tts"])
                      /\ Running
                 ELSE IF ~voice_enabled
                 THEN /\ Goto(t, [th EXCEPT !.pc = "set_loaded"])
                      /\ Running
                 ELSE IF mm[th.kind] = Absent
                 THEN /\ Goto(t, Idling)
                      /\ Raises(method_of(th), "AttributeError")
                 ELSE IF mm[th.kind] = None
                 THEN /\ Goto(t, [th EXCEPT !.pc = "construct"])
                      /\ Running
                 ELSE /\ Goto(t, [th EXCEPT !.pc = "return"])
                      /\ Running
    /\ UNCHANGED <<mm, built, given, manager_frame>>

\* WhisperSTT(...) / CoquiTTS(...): the constructor loads the model and
\* returns the object, or raises.
GetConstruct ==
    /\ \E t \in Threads, loaded \in BOOLEAN :
          LET th == mm_threads[t]
          IN  /\ th.pc = "construct"
              /\ IF loaded
                 THEN /\ built.total < MaxLoads
                      /\ built' = [built EXCEPT ![th.kind] = @ + 1,
                                                !.total = @ + 1]
                      /\ Goto(t, [th EXCEPT !.pc = "assign",
                                            !.local = built.total + 1])
                 ELSE /\ built' = built
                      /\ Goto(t, [th EXCEPT !.pc = "except"])
    /\ Running
    /\ UNCHANGED <<mm, given, manager_frame>>

\* cls._stt_model = <the object constructed>
GetAssign ==
    /\ \E t \in Threads :
          LET th == mm_threads[t]
          IN  /\ th.pc = "assign"
              /\ mm' = [mm EXCEPT ![th.kind] = th.local]
              /\ Goto(t, [th EXCEPT !.pc = "return"])
    /\ Running
    /\ UNCHANGED <<built, given, manager_frame>>

\* Mutant of GetExcept: the error is logged and None is returned.
GetExcept_swallows ==
    /\ \E t \in Threads :
          LET th == mm_threads[t]
          IN  /\ th.pc = "except"
              /\ mm' = [mm EXCEPT ![th.kind] = None]
              /\ Goto(t, Idling)
              /\ Returns(method_of(th), ModelRet(None))
    /\ UNCHANGED <<built, given, manager_frame>>

\* except Exception: cls._stt_model = None; raise
GetExcept ==
    /\ \E t \in Threads :
          LET th == mm_threads[t]
          IN  /\ th.pc = "except"
              /\ mm' = [mm EXCEPT ![th.kind] = None]
              /\ Goto(t, Idling)
              /\ Raises(method_of(th), "LoadError")
    /\ UNCHANGED <<built, given, manager_frame>>

\* return cls._stt_model; in preload_models the next statement follows.
GetReturn ==
    /\ \E t \in Threads :
          LET th == mm_threads[t]
              v == mm[th.kind]
          IN  /\ th.pc = "return"
              /\ IF v = Absent
                 THEN /\ Goto(t, Idling)
                      /\ Raises(method_of(th), "AttributeError")
                      /\ given' = given
                 ELSE /\ given' = [given EXCEPT ![th.kind] = @ \cup {v}]
                      /\ IF ~th.preload
                         THEN /\ Goto(t, Idling)
                              /\ Returns(method_of(th), ModelRet(v))
                         ELSE /\ Running
                              /\ IF th.kind = "stt"
                                 THEN Goto(t, [th EXCEPT !.pc = "check",
                                                         !.kind = "tts",
                                                         !.local = None])
                                 ELSE Goto(t, [th EXCEPT !.pc = "set_loaded"])
    /\ UNCHANGED <<mm, built, manager_frame>>

\* cls._models_loaded = True
PreloadSet ==
    /\ \E t \in Threads :
          /\ mm_threads[t].pc = "set_loaded"
          /\ mm' = [mm EXCEPT !.models_loaded = TRUE]
          /\ Goto(t, Idling)
    /\ Returns("preload_models", NoRet)
    /\ UNCHANGED <<built, given, manager_frame>>

\* if cls._stt_model is not None:   (and then the same for _tts_model)
UnloadTest ==
    /\ \E t \in Threads :
          LET th == mm_threads[t]
          IN  /\ th.pc = "unload_test"
              /\ IF mm[th.kind] = Absent
                 THEN /\ Goto(t, Idling)
                      /\ Raises("unload_models", "AttributeError")
                 ELSE /\ Running
                      /\ IF mm[th.kind] # None
                         THEN Goto(t, [th EXCEPT !.pc = "unload_del"])
                         ELSE IF th.kind = "stt"
                         THEN Goto(t, [th EXCEPT !.kind = "tts"])
                         ELSE Goto(t, [th EXCEPT !.pc = "unload_flag"])
    /\ UNCHANGED <<mm, built, given, manager_frame>>

\* del cls._stt_model
UnloadDel ==
    /\ \E t \in Threads :
          LET th == mm_threads[t]
          IN  /\ th.pc = "unload_del"
              /\ IF mm[th.kind] = Absent
                 THEN /\ Goto(t, Idling)
                      /\ Raises("unload_models", "AttributeError")
                      /\ mm' = mm
                 ELSE /\ mm' = [mm EXCEPT ![th.kind] = Absent]
                      /\ Goto(t, [th EXCEPT !.pc = "unload_none"])
                      /\ Running
    /\ UNCHANGED <<built, given, manager_frame>>

\* cls._stt_model = None
UnloadNone ==
    /\ \E t \in Threads :
          LET th == mm_threads[t]
          IN  /\ th.pc = "unload_none"
              /\ mm' = [mm EXCEPT ![th.kind] = None]
              /\ IF th.kind = "stt"
                 THEN Goto(t, [th EXCEPT !.pc = "unload_test", !.kind = "tts"])
                 ELSE Goto(t, [th EXCEPT !.pc = "unload_flag"])
    /\ Running
    /\ UNCHANGED <<built, given, manager_frame>>

\* cls._models_loaded = False
UnloadFlag ==
    /\ \E t \in Threads :
          /\ mm_threads[t].pc = "unload_flag"
          /\ mm' = [mm EXCEPT !.models_loaded = FALSE]
          /\ Goto(t, Idling)
    /\ built' = [built EXCEPT !.stt = 0, !.tts = 0]
    /\ given' = [given EXCEPT !.stt = {}, !.tts = {}]
    /\ Returns("unload_models", NoRet)
    /\ UNCHANGED manager_frame

\* os.environ['VOICE_ENABLED'] is assigned; is_voice_enabled reads it at
\* every call.
SetVoiceEnabled ==
    /\ voice_enabled' = ~voice_enabled
    /\ Returns("setenv", NoRet)
    /\ UNCHANGED <<fixed_vars, handed, stt_vars, vad_vars, ab_vars, now, mm,
                   mm_threads, built, given>>

InitManager ==
    /\ buffer = "none"
    /\ chunks = VADBuffer_init.chunks
    /\ total_bytes = VADBuffer_init.total_bytes
    /\ silence_start_time = VADBuffer_init.silence_start_time
    /\ has_speech = VADBuffer_init.has_speech
    /\ chunk_duration = DefaultChunkDuration
    /\ max_duration = DefaultMaxDuration
    /\ ab_chunks = AudioBuffer_init(chunk_duration, max_duration).chunks
    /\ total_duration = AudioBuffer_init(chunk_duration, max_duration).total_duration
    /\ input = NoInput
    /\ now = 0
    /\ op = "__init__"
    /\ ret = NoRet
    /\ raised = "none"
    /\ calls = <<>>
    /\ handed = NotHanded
    /\ stt_model = WhisperModel
    /\ inflight = [c \in CallIds |-> NoCall]
    /\ temp_files = {}
    /\ ManagerInit
    /\ voice_enabled \in BOOLEAN

NextManager ==
    \/ CallGet
    \/ CallPreload
    \/ CallUnload
    \/ GetCheck
    \/ GetConstruct
    \/ GetAssign
    \/ GetExcept
    \/ GetReturn
    \/ PreloadSet
    \/ UnloadTest
    \/ UnloadDel
    \/ UnloadNone
    \/ UnloadFlag

SpecManager == InitManager /\ [][NextManager]_vars

----------------------------------------------------------------------------
\* ModelManager with one caller, while VOICE_ENABLED is switched on and off
\* at any moment, also in the middle of a call.

\* A thread that never calls ModelManager.
Parked == [pc |-> "parked"]

InitVoice ==
    /\ buffer = "none"
    /\ chunks = VADBuffer_init.chunks
    /\ total_bytes = VADBuffer_init.total_bytes
    /\ silence_start_time = VADBuffer_init.silence_start_time
    /\ has_speech = VADBuffer_init.has_speech
    /\ chunk_duration = DefaultChunkDuration
    /\ max_duration = DefaultMaxDuration
    /\ ab_chunks = AudioBuffer_init(chunk_duration, max_duration).chunks
    /\ total_duration = AudioBuffer_init(chunk_duration, max_duration).total_duration
    /\ input = NoInput
    /\ now = 0
    /\ op = "__init__"
    /\ ret = NoRet
    /\ raised = "none"
    /\ calls = <<>>
    /\ handed = NotHanded
    /\ stt_model = WhisperModel
    /\ inflight = [c \in CallIds |-> NoCall]
    /\ temp_files = {}
    /\ mm = [stt |-> None, tts |-> None, models_loaded |-> FALSE]
    /\ mm_threads = [t \in Threads |-> IF t = "t1" THEN Idling ELSE Parked]
    /\ built = [stt |-> 0, tts |-> 0, total |-> 0]
    /\ given = [stt |-> {}, tts |-> {}]
    /\ voice_enabled \in BOOLEAN

NextVoice ==
    \/ NextManager
    \/ SetVoiceEnabled

SpecVoice == InitVoice /\ [][NextVoice]_vars

----------------------------------------------------------------------------
\* Vocabulary of the properties.

Triggered == should_trigger(VAD, now)

Idle ==
    /\ Len(chunks) = 0
    /\ total_bytes = 0
    /\ has_speech = FALSE
    /\ silence_start_time = None

AllSilence == \A i \in 1..Len(chunks) : is_silence(chunks[i])

SomeSpeech == \E i \in 1..Len(chunks) : ~is_silence(chunks[i])

\* A speech fragment, and only silence fragments after it (at least one).
SpeechThenSilence ==
    \E i \in 1..(Len(chunks) - 1) :
        /\ ~is_silence(chunks[i])
        /\ \A j \in (i + 1)..Len(chunks) : is_silence(chunks[j])

AllSpeech == \A i \in 1..Len(chunks) : ~is_silence(chunks[i])

RECURSIVE SumLen(_)
SumLen(cs) == IF cs = <<>> THEN 0 ELSE Head(cs).len + SumLen(Tail(cs))

ResetStep == op' \in {"get_audio_and_reset", "clear"}

SpeechAdded ==
    /\ op' = "add_chunk"
    /\ Len(chunks') = Len(chunks) + 1
    /\ ~is_silence(chunks'[Len(chunks')])

----------------------------------------------------------------------------
\* C1: while every fragment added since the last reset classifies as
\* silence, should_trigger() is false, whatever the elapsed time and the
\* accumulated byte count.
C1_SilenceNeverTriggers ==
    (buffer = "vad" /\ AllSilence) =>
        /\ ~Triggered
        /\ (op = "should_trigger" => ret = BoolRet(FALSE))

\* Only silence, buffered beyond max_duration_s and for longer than
\* silence_threshold_ms, and should_trigger() has just answered.
C1_Witness ==
    /\ op = "should_trigger"
    /\ Len(chunks) > 0
    /\ AllSilence
    /\ SumLen(chunks) > 19200
    /\ silence_start_time # None
    /\ now - silence_start_time >= 1000
    /\ ret = BoolRet(FALSE)

\* C2 (as amended): after a speech fragment followed by silence fragments
\* whose run has lasted silence_threshold_ms, should_trigger() is true; once
\* true it stays true across the passage of time, queries and further silence
\* fragments; a further speech fragment ends the run, and should_trigger()
\* is then true only if the max-duration backstop holds; a reset ends it.
C2_TriggerLatchesOverSilence ==
    /\ []((/\ buffer = "vad"
           /\ SpeechThenSilence
           /\ silence_start_time # None
           /\ now - silence_start_time >= 1000) => Triggered)
    /\ [][(Triggered /\ ~ResetStep /\ ~SpeechAdded) => Triggered']_vars
    /\ [][(Triggered /\ SpeechAdded) =>
            (Triggered' <=> SumLen(chunks') >= 19200)]_vars

\* A silence fragment arrives when the run is already silence_threshold_ms
\* old, and the trigger is set.
C2_Witness ==
    /\ op = "add_chunk"
    /\ SpeechThenSilence
    /\ silence_start_time # None
    /\ now - silence_start_time >= 1000
    /\ SumLen(chunks) < 19200
    /\ Triggered

\* C2 as stated: once true, should_trigger() stays true across any further
\* add_chunk and any passage of time, until the buffer is reset.
C2_Original ==
    [][(Triggered /\ ~ResetStep) => Triggered']_vars

\* C3 (as amended): a buffer that holds at least one non-silence fragment
\* and whose estimated duration exceeds max_duration_s triggers, whatever
\* the pattern of silence and speech.
C3_BackstopAfterSpeech ==
    (buffer = "vad" /\ SomeSpeech /\ SumLen(chunks) > 19200) => Triggered

\* Over the backstop with both silence and speech buffered and no silence
\* run old enough to trigger by itself.
C3_Witness ==
    /\ SumLen(chunks) > 19200
    /\ SomeSpeech
    /\ ~AllSpeech
    /\ (silence_start_time = None \/ now - silence_start_time < 1000)
    /\ op = "should_trigger"
    /\ ret = BoolRet(TRUE)

\* C3 as stated: every buffer whose estimated duration exceeds
\* max_duration_s triggers, regardless of the silence pattern.
C3_Original ==
    (buffer = "vad" /\ SumLen(chunks) > 19200) => Triggered

\* C4: should_trigger() is true exactly when has_speech holds and either
\* the silence run is at least 1000 ms old or at least 19200 bytes (6.0 s)
\* are buffered, both bounds inclusive.  Below the backstop, one speech
\* fragment followed by silence triggers exactly from the 1000 ms mark of
\* the run; under speech alone the trigger is exactly the 19200-byte mark.
C4_TriggerExactly ==
    buffer = "vad" =>
        /\ Triggered <=>
              /\ has_speech
              /\ \/ silence_start_time # None /\ now - silence_start_time >= 1000
                 \/ total_bytes >= 19200
        /\ (op = "should_trigger" => ret = BoolRet(Triggered))
        /\ (SpeechThenSilence /\ SumLen(chunks) < 19200) =>
              (Triggered <=> now - silence_start_time >= 1000)
        /\ (Len(chunks) > 0 /\ AllSpeech) =>
              (Triggered <=> SumLen(chunks) >= 19200)

\* should_trigger() answers true exactly at the 1000 ms mark of the run.
C4_Witness ==
    /\ op = "should_trigger"
    /\ ret = BoolRet(TRUE)
    /\ SpeechThenSilence
    /\ now - silence_start_time = 1000
    /\ total_bytes < 19200

\* C5: after get_audio_and_reset() the buffer is Idle and does not trigger.
C5_ResetIsIdle ==
    op = "get_audio_and_reset" => (Idle /\ ~Triggered)

\* get_audio_and_reset() has just returned the audio of a non-empty buffer.
C5_Witness ==
    /\ op = "get_audio_and_reset"
    /\ ret.data # <<>>
    /\ Idle


\* The fragments of cs that hold bytes, in arrival order: what the
\* concatenation of cs consists of.
InOrder(cs) == SelectSeq(cs, LAMBDA f : f.len > 0)

Buffered == IF buffer = "vad" THEN chunks ELSE ab_chunks

DecodeCalls(c) == SelectSeq(c, LAMBDA x : x.fn = "from_file")

BothDecodesFailed(c) ==
    /\ Len(DecodeCalls(c)) = 2
    /\ \A i \in 1..2 : ~DecodeCalls(c)[i].ok

ExportFailed(c) == \E i \in 1..Len(c) : c[i].fn = "export" /\ ~c[i].ok

\* C6: get_audio_and_reset() leaves the buffer Idle on every outcome of the
\* assembly and raises nothing; when both decode attempts or the export fail
\* it returns the raw concatenation of the fragments in arrival order; a call
\* that follows at once gets empty bytes, not the same fragments.
C6_ResetOnEveryOutcome ==
    /\ [][op' = "get_audio_and_reset" =>
            /\ raised' = "none"
            /\ Idle'
            /\ (BothDecodesFailed(calls') \/ ExportFailed(calls')) =>
                  ret' = RawBytes(InOrder(chunks))]_vars
    /\ [][(op = "get_audio_and_reset" /\ op' = "get_audio_and_reset") =>
            (ret' = RawBytes(<<>>) /\ calls' = <<>>)]_vars

\* Both decode attempts failed on two or more fragments; the raw bytes were
\* returned and the buffer is Idle.
C6_Witness ==
    /\ op = "get_audio_and_reset"
    /\ BothDecodesFailed(calls)
    /\ ret.kind = "raw"
    /\ Len(ret.data) >= 2
    /\ raised = "none"
    /\ Idle

\* C7: assembly in both buffers decodes as WebM first, tries automatic
\* detection exactly when the WebM decode failed, makes no third attempt,
\* returns the WAV of the first decode that succeeded, returns the raw
\* concatenation when both decodes failed (or the export of the decoded audio
\* failed) and only then, and raises nothing.
C7_DecodeOrder ==
    [][(op' \in {"get_audio", "get_audio_and_reset"} /\ Buffered # <<>>) =>
        LET d == DecodeCalls(calls')
        IN  /\ Len(calls') >= 1
            /\ calls'[1].fn = "from_file"
            /\ calls'[1].format = "webm"
            /\ Len(d) = (IF d[1].ok THEN 1 ELSE 2)
            /\ Len(d) = 2 => (calls'[2] = d[2] /\ d[2].format = "auto")
            /\ raised' = "none"
            /\ ret'.kind \in {"wav", "raw"}
            /\ ret'.kind = "raw" <=>
                  (BothDecodesFailed(calls') \/ ExportFailed(calls'))
            /\ ret'.kind = "wav" =>
                  ret'.via = (IF d[1].ok THEN "webm" ELSE "auto")
            /\ ret'.data = InOrder(Buffered)]_vars

\* The fixed-window buffer fell back to automatic detection, which decoded.
C7_Witness ==
    /\ op = "get_audio"
    /\ Len(calls) = 3
    /\ calls[1].format = "webm"
    /\ ~calls[1].ok
    /\ calls[2].format = "auto"
    /\ calls[2].ok
    /\ ret.kind = "wav"
    /\ ret.via = "auto"

\* C8: every decode attempt takes the concatenation of all buffered
\* fragments in arrival order; only get_audio and get_audio_and_reset
\* decode: add, add_chunk, is_valid_audio, should_trigger and is_ready make
\* no decode attempt.
C8_DecodeWholeBufferOnly ==
    [][/\ \A i \in 1..Len(calls') :
             calls'[i].fn = "from_file" => calls'[i].input = InOrder(Buffered)
       /\ op' \notin {"get_audio", "get_audio_and_reset"} =>
             DecodeCalls(calls') = <<>>]_vars

\* Two decode attempts, each on the same concatenation of several fragments.
C8_Witness ==
    /\ op \in {"get_audio", "get_audio_and_reset"}
    /\ Len(DecodeCalls(calls)) = 2
    /\ Len(calls[1].input) >= 2
    /\ calls[2].input = calls[1].input

\* C9: once true, has_speech stays true across every add_chunk, query and
\* passage of time; get_audio_and_reset() and clear(), and only they, make
\* it false.
C9_HasSpeechMonotonic ==
    /\ [][(has_speech /\ ~ResetStep) => has_speech']_vars
    /\ [][ResetStep => ~has_speech']_vars

\* A silence fragment was added after speech and has_speech is still true.
C9_Witness ==
    /\ op = "add_chunk"
    /\ has_speech
    /\ Len(chunks) >= 2
    /\ is_silence(chunks[Len(chunks)])

\* C10: whenever the most recently added fragment classified as speech,
\* silence_start_time is None.
C10_SpeechClearsSilenceRun ==
    (buffer = "vad" /\ Len(chunks) > 0 /\ ~is_silence(chunks[Len(chunks)])) =>
        silence_start_time = None

\* A speech fragment has just been added on top of a silence run.
C10_Witness ==
    /\ op = "add_chunk"
    /\ Len(chunks) >= 2
    /\ is_silence(chunks[Len(chunks) - 1])
    /\ ~is_silence(chunks[Len(chunks)])
    /\ silence_start_time = None

\* The fragment an add_chunk step appended.
Added == chunks'[Len(chunks')]

WholeSamples(f) == f.len > 0 /\ f.len % 2 = 0

\* C18 (as amended): a fragment whose byte length is odd, a fragment shorter
\* than one 16-bit sample among them, classifies as not silence: adding it
\* sets has_speech and clears silence_start_time.  An empty fragment
\* classifies as silence: adding it leaves has_speech as it was and starts or
\* continues the silence run.  add_chunk raises nothing.
C18_FailOpenOnOddLength ==
    /\ [][op' = "add_chunk" =>
            /\ raised' = "none"
            /\ Added.len % 2 = 1 =>
                  (has_speech' /\ silence_start_time' = None)
            /\ Added.len = 0 =>
                  /\ has_speech' = has_speech
                  /\ silence_start_time' # None
                  /\ silence_start_time # None =>
                        silence_start_time' = silence_start_time]_vars
    /\ [](~is_silence([len |-> 1, rms |-> 0]))

\* An odd-length fragment has just ended a silence run.
C18_Witness ==
    /\ op = "add_chunk"
    /\ Len(chunks) >= 2
    /\ chunks[Len(chunks)].len % 2 = 1
    /\ chunks[Len(chunks) - 1].len = 0
    /\ has_speech
    /\ silence_start_time = None

\* C18 as stated: an empty fragment, a fragment shorter than one sample and
\* a fragment of odd length all classify as not silence.
C18_Original ==
    [][(op' = "add_chunk" /\ (Added.len < 2 \/ Added.len % 2 = 1)) =>
        (has_speech' /\ silence_start_time' = None /\ raised' = "none")]_vars

\* C19: a fragment of whole samples classifies as silence exactly when its
\* RMS is strictly below 0.01, whatever the buffer holds, has_speech,
\* silence_start_time and the clock: add_chunk takes the silence branch for
\* it exactly then.
C19_SilenceIffBelowThreshold ==
    /\ [][(op' = "add_chunk" /\ WholeSamples(Added)) =>
            /\ Added.rms < 10 =>
                  (silence_start_time' # None /\ has_speech' = has_speech)
            /\ Added.rms >= 10 =>
                  (silence_start_time' = None /\ has_speech')]_vars
    /\ [](\A f \in Fragments :
              WholeSamples(f) => (is_silence(f) <=> f.rms < 10))

\* A fragment whose RMS equals the threshold has just ended a silence run.
C19_Witness ==
    /\ op = "add_chunk"
    /\ Len(chunks) >= 2
    /\ WholeSamples(chunks[Len(chunks)])
    /\ chunks[Len(chunks)].rms = 10
    /\ is_silence(chunks[Len(chunks) - 1])
    /\ silence_start_time = None
    /\ now > 0

\* C20 (as amended): once a non-silence fragment is buffered, the backstop
\* bounds accumulation: should_trigger() is true from 19200 buffered bytes
\* on, so a caller that adds only while should_trigger() is false adds only
\* to a buffer of fewer than 19200 bytes; and the flush of a triggered
\* buffer returns every buffered fragment and leaves the buffer Idle also
\* when the audio does not decode.
C20_BackstopBoundsSpeech ==
    /\ []((buffer = "vad" /\ has_speech /\ SumLen(chunks) >= 19200) =>
            Triggered)
    /\ [][(op' = "add_chunk" /\ has_speech /\ ~Triggered) =>
            /\ SumLen(chunks) < 19200
            /\ SumLen(chunks') < 19200 + Added.len]_vars
    /\ [][(Triggered /\ op' = "get_audio_and_reset") =>
            (Idle' /\ ret'.data = InOrder(chunks) /\ raised' = "none")]_vars

\* A buffer that held speech and 19200 bytes or more was flushed although
\* both decode attempts failed.
C20_Witness ==
    /\ op = "get_audio_and_reset"
    /\ BothDecodesFailed(calls)
    /\ ret.kind = "raw"
    /\ SumLen(ret.data) >= 19200
    /\ \E i \in 1..Len(ret.data) : ~is_silence(ret.data[i])
    /\ Idle

\* C20 as stated: in any session the backstop bounds accumulation, so a
\* caller that adds only while should_trigger() is false adds only to a
\* buffer of fewer than 19200 bytes.
C20_Original ==
    [][(op' = "add_chunk" /\ ~Triggered) => SumLen(chunks) < 19200]_vars

\* C30: silence_start_time is set once per silence run.  A silence fragment
\* added while no run is active sets it to the time of that call; a silence
\* fragment added while a run is active leaves silence_start_time and
\* has_speech as they were; queries and the passage of time leave it alone.
\* So throughout a run of silence fragments it is the arrival time of the
\* first fragment of the run.
C30_SilenceStartSetOnce ==
    /\ [][(op' = "add_chunk" /\ is_silence(Added)) =>
            /\ has_speech' = has_speech
            /\ silence_start_time' =
                  (IF silence_start_time = None THEN now
                   ELSE silence_start_time)]_vars
    /\ [][op' \in {"tick", "should_trigger", "get_duration",
                    "get_chunk_count"} =>
            silence_start_time' = silence_start_time]_vars
    /\ []((buffer = "vad" /\ silence_start_time # None) =>
            /\ Len(chunks) > 0
            /\ is_silence(chunks[Len(chunks)])
            /\ silence_start_time <= now)

\* A second silence fragment has arrived later than the first of its run,
\* after speech, and silence_start_time is still the earlier time.
C30_Witness ==
    /\ op = "add_chunk"
    /\ Len(chunks) = 3
    /\ ~is_silence(chunks[1])
    /\ is_silence(chunks[2])
    /\ is_silence(chunks[3])
    /\ silence_start_time = 0
    /\ now > 0
    /\ has_speech

\* C21: the audio get_audio_and_reset() returns after a successful decode
\* is mono and at the configured sample rate (16000 Hz), whatever the frame
\* rate and the channel count of the decoded stream.
C21_CanonicalAudio ==
    (op = "get_audio_and_reset" /\ ret.kind = "wav") =>
        (ret.channels = 1 /\ ret.frame_rate = sample_rate)

----------------------------------------------------------------------------
\* The hand-over of the assembled audio (checked under SpecHandOver).

\* What the holder of a returned object reads from it: a bytes object is a
\* value; a list is read through the buffer that owns it.
Content(h) == IF h.kind = "list" THEN InOrder(chunks) ELSE h.data

\* C24: the bytes get_audio_and_reset() returned are what the caller holds,
\* and no later add_chunk, clear or get_audio_and_reset on the same buffer
\* changes them; add_chunk appends to the buffer only, and the next
\* get_audio_and_reset() returns exactly the fragments added after the
\* hand-over.
C24_HandedAssetImmutable ==
    /\ [][op' = "get_audio_and_reset" =>
            (Content(ret)' = InOrder(chunks) /\ chunks' = <<>>)]_vars
    /\ [][op' = "hand_over" => Content(handed)' = Content(ret)]_vars
    /\ [][(handed # NotHanded /\ op' # "hand_over") =>
            Content(handed)' = Content(handed)]_vars
    /\ [][op' = "add_chunk" => chunks' = Append(chunks, Added)]_vars

\* The caller holds the raw bytes of one utterance; the buffer has been
\* flushed once more since, and fragments have been added after that.
C24_Witness ==
    /\ handed.kind = "raw"
    /\ Len(handed.data) >= 2
    /\ op = "add_chunk"
    /\ chunks # <<>>
    /\ InOrder(chunks) # handed.data

----------------------------------------------------------------------------
\* The session and the STT engine (checked under SpecSTT).

Transcribes == {"transcribe", "transcribe_sync"}

\* C22: at most one transcribe call of the session is outstanding at any
\* time: while one is, no utterance is assembled (no get_audio_and_reset)
\* and no transcribe call is started.
C22_AtMostOneInFlight ==
    /\ [](Cardinality(Outstanding) <= 1)
    /\ [][Outstanding # {} =>
            /\ op' # "dispatch"
            /\ Outstanding' \subseteq Outstanding
            /\ (chunks # <<>> => chunks' # <<>>)]_vars

\* transcribe_sync is in the model's inference on a worker thread and the
\* buffer has triggered again: the next utterance waits.
C22_Witness ==
    /\ \E c \in Outstanding :
          /\ inflight[c].api = "transcribe_sync"
          /\ inflight[c].pc = "inference"
    /\ op = "add_chunk"
    /\ should_trigger(VAD, now)

\* C23: while a transcribe call is outstanding, add_chunk can be executed
\* for a fragment that arrives: the model's inference does not run on the
\* event loop's thread, which accepts the fragments.
C23_IngestionNotBlocked ==
    /\ \A c \in Outstanding :
          inflight[c].pc = "inference" => inflight[c].thread # "loop"
    /\ (Outstanding # {} /\ Len(chunks) < MaxChunks) => ENABLED Ingest

\* C25: when the model's transcribe fails, transcribe and transcribe_sync
\* raise that error, return nothing and have invoked the model exactly
\* once; when the model is not loaded they raise RuntimeError and the model
\* is not invoked; a result is returned exactly when nothing is raised.
C25_FailureSurfacedOnce ==
    /\ [][(op' \in Transcribes /\ calls' # <<>> /\ ~calls'[1].ok) =>
            /\ raised' = calls'[1].error
            /\ raised' # "none"
            /\ ret' = NoRet
            /\ Len(calls') = 1]_vars
    /\ [][(op' \in Transcribes /\ stt_model = None) =>
            (raised' = "RuntimeError" /\ ret' = NoRet /\ calls' = <<>>)]_vars
    /\ [](stt_model = None =>
            \A c \in Outstanding : inflight[c].pc # "inference")
    /\ [](op \in Transcribes =>
            /\ Len(calls) <= 1
            /\ raised = "none" <=> ret = Transcript)

\* The model failed during transcribe_sync; the error reached the caller
\* after one invocation.
C25_Witness ==
    /\ op = "transcribe_sync"
    /\ raised = "ModelError"
    /\ ret = NoRet
    /\ Len(calls) = 1
    /\ Outstanding = {}

----------------------------------------------------------------------------
\* The fixed-window buffer (checked under SpecAB).

Ready == is_ready(AB)

Full == is_full(AB)

\* C11 (as amended): reading and clearing are two operations.  get_audio
\* returns all buffered fragments in arrival order and leaves the buffer as
\* it was, so a second read returns the same fragments; clear() empties the
\* buffer, and a read that follows it returns no fragment added before it.
C11_ReadThenClear ==
    /\ [][op' = "get_audio" =>
            /\ ret'.data = InOrder(ab_chunks)
            /\ UNCHANGED ab_vars]_vars
    /\ [][op' = "AudioBuffer.clear" =>
            (ab_chunks' = <<>> /\ total_duration' = 0)]_vars
    /\ [][(op = "AudioBuffer.clear" /\ op' = "get_audio") =>
            ret' = RawBytes(<<>>)]_vars

\* A read returned two or more fragments and they are still buffered.
C11_Witness ==
    /\ op = "get_audio"
    /\ Len(ret.data) >= 2
    /\ ret.data = InOrder(ab_chunks)

\* C11 as stated: of two successive reads with no add in between, at most
\* one returns fragments.
C11_Original ==
    [][(op = "get_audio" /\ op' = "get_audio") =>
        (ret.data = <<>> \/ ret'.data = <<>>)]_vars

\* C12 (as amended): a Ready buffer returns to Filling only through
\* clear(), which drops every buffered fragment and returns none of them;
\* get_audio leaves a Ready buffer Ready.
C12_ReadyLeftOnlyByClear ==
    /\ [][(Ready /\ ~Ready') =>
            (op' = "AudioBuffer.clear" /\ ret' = NoRet /\ ab_chunks' = <<>>)]_vars
    /\ [][(Ready /\ op' = "get_audio") => Ready']_vars

\* A Ready buffer has been read and is still Ready.
C12_Witness ==
    /\ op = "get_audio"
    /\ chunk_duration > 0
    /\ Ready
    /\ ret.data # <<>>

\* C12 as stated: a buffer leaves Ready only through an operation that
\* returns all the fragments it held.
C12_Original ==
    [][(Ready /\ ~Ready') =>
        (ret'.kind \in {"wav", "raw"} /\ ret'.data = InOrder(ab_chunks))]_vars

C14_FullImpliesReady ==
    (chunk_duration <= max_duration /\ Full) => Ready

\* is_full() answers true with exactly max_duration seconds buffered.
C14_Witness ==
    /\ op = "is_full"
    /\ ret = BoolRet(TRUE)
    /\ chunk_duration <= max_duration
    /\ SumLen(ab_chunks) = max_duration * 3200
    /\ Ready

\* C14 as stated: under every configuration, a buffer that is full is ready.
C14_Original == Full => Ready

\* The fragment an add step was given, when it was stored.
ABAdded == ab_chunks'[Len(ab_chunks')]

----------------------------------------------------------------------------
\* AudioProcessor (checked under SpecProcessor).

\* C27: bytes_to_base64 returns a string for every byte sequence and raises
\* nothing, and base64_to_bytes of that string returns the byte sequence.
C27_Base64RoundTrip ==
    /\ [](op = "bytes_to_base64" => (ret.kind = "str" /\ raised = "none"))
    /\ [][(op = "bytes_to_base64" /\ op' = "base64_to_bytes"
            /\ calls'[1].input = ret.str) =>
            (raised' = "none" /\ ret' = BytesRet(input.audio_bytes))]_vars

\* Four bytes, the last group padded, came back from the round trip.
C27_Witness ==
    /\ op = "base64_to_bytes"
    /\ Len(input.audio_bytes) = 4
    /\ Len(calls[1].input) = 8
    /\ calls[1].input[8] = Pad
    /\ ret = BytesRet(input.audio_bytes)

\* C28: resample_audio calls set_frame_rate exactly when the source rate
\* differs from the target and set_channels exactly when the source has more
\* than one channel; what it returns is mono at the target rate; for audio
\* that is already mono at the target rate the result has the frame rate and
\* the duration (the frame count) of the input.
C28_ResampleOnlyIfNeeded ==
    (op = "resample_audio" /\ input.audio_bytes.wav) =>
        LET src == input.audio_bytes.segment
            t == input.target_sample_rate
            Called(fn) == \E i \in 1..Len(calls) : calls[i].fn = fn
        IN  /\ Called("set_frame_rate") <=> src.frame_rate # t
            /\ Called("set_channels") <=> src.channels > 1
            /\ raised = "none" =>
                  /\ ret.kind = "wav"
                  /\ ret.channels = 1
                  /\ ret.frame_rate = t
                  /\ (src.frame_rate = t /\ src.channels = 1) =>
                        ret.frame_count = src.frame_count
            /\ raised = "none" <=> calls[Len(calls)].ok

\* Stereo audio already at the target rate was downmixed and not resampled.
C28_Witness ==
    /\ op = "resample_audio"
    /\ raised = "none"
    /\ input.audio_bytes.segment.channels = 2
    /\ input.audio_bytes.segment.frame_rate = input.target_sample_rate
    /\ Len(calls) = 3
    /\ ret.channels = 1
    /\ ret.frame_count = input.audio_bytes.segment.frame_count

----------------------------------------------------------------------------
\* AudioValidator (checked under SpecValidator).

\* C15: is_valid_audio(fragment, min_duration) is true exactly when the
\* fragment is non-empty and holds at least floor(min_duration * 3200)
\* bytes (320 for the default 0.1 s); it makes no decode attempt; a longer
\* fragment is admitted whenever a shorter one is; an empty fragment is
\* rejected also for min_duration 0.
C15_ValidByLengthAlone ==
    op = "is_valid_audio" =>
        LET n == input.fragment.len
            d == input.min_duration
        IN  /\ ret.kind = "bool"
            /\ ret.val <=> (n > 0 /\ (n + 1) * 1000 > d * 3200)
            /\ d = 100 => (ret.val <=> n >= 320)
            /\ calls = <<>>
            /\ raised = "none"
            /\ ret.val =>
                  \A m \in ValidatorLengths :
                      m >= n => is_valid_audio([len |-> m, rms |-> 0], d)
            /\ n = 0 => ~ret.val

\* An empty fragment has just been rejected for min_duration 0.
C15_Witness ==
    /\ op = "is_valid_audio"
    /\ input.fragment.len = 0
    /\ input.min_duration = 0
    /\ ret = BoolRet(FALSE)

Allowed(fs) == IF fs.given THEN fs.formats ELSE DefaultFormats

\* C16: validate_format answers true only for bytes that decode as one of
\* the formats of allowed_formats.
C16_OnlyAllowedFormats ==
    (op = "validate_format" /\ ret = BoolRet(TRUE)) =>
        input.audio_bytes.format \in Allowed(input.allowed_formats)

\* C17: validate_format raises nothing and returns a boolean for every
\* input, false when the bytes do not decode, empty bytes among them.
C17_ValidateFormatNeverRaises ==
    op = "validate_format" =>
        /\ raised = "none"
        /\ ret.kind = "bool"
        /\ input.audio_bytes.format = "none" => ret = BoolRet(FALSE)
        /\ Len(calls) = 1
        /\ calls[1].ok <=> ret.val

\* Empty bytes were given, the decode failed and false was returned.
C17_Witness ==
    /\ op = "validate_format"
    /\ input.audio_bytes.len = 0
    /\ ~calls[1].ok
    /\ ret = BoolRet(FALSE)
    /\ raised = "none"

\* C29: ModelManager keeps one instance per model type and loads lazily:
\* nothing is constructed before the first get_stt_model() / get_tts_model()
\* call, and from one completed unload_models() to the next each model is
\* constructed at most once and every get call returns that one instance,
\* also when several threads call get_stt_model() at the same time.
\* (built counts the constructions and given collects the values returned
\* since the last unload_models() completed.)
C29_OneInstanceLazily ==
    /\ op = "__init__" => built.total = 0 /\ mm.stt = None /\ mm.tts = None
    /\ \A k \in Kinds :
          /\ built[k] <= 1
          /\ Cardinality(given[k]) <= 1

----------------------------------------------------------------------------
\* C31: chunks holds exactly the fragments added since creation or the last
\* reset, in arrival order: add_chunk appends one fragment and keeps the
\* ones before it, get_audio_and_reset and clear empty the list, and no other
\* operation changes it; total_bytes is the sum of the lengths of the
\* fragments held, and get_duration() returns total_bytes / 3200.
C31_ChunksAndByteCount ==
    /\ [](total_bytes = SumLen(chunks))
    /\ [](op = "get_duration" =>
            ret = FloatRet(SumLen(chunks), BytesPerSecond))
    /\ [][op' = "add_chunk" =>
            \E f \in Fragments : chunks' = Append(chunks, f)]_vars
    /\ [][ResetStep => chunks' = <<>>]_vars
    /\ [][op' \notin {"add_chunk", "get_audio_and_reset", "clear"} =>
            chunks' = chunks]_vars

\* Two different fragments are held in the order of their arrival and
\* get_duration() has answered for them.
C31_Witness ==
    /\ op = "get_duration"
    /\ chunks = <<Loud, Quiet>>
    /\ total_bytes = Loud.len + Quiet.len
    /\ ret = FloatRet(Loud.len + Quiet.len, BytesPerSecond)

----------------------------------------------------------------------------
\* The max-duration backstop (checked under SpecBackstop).

BackstopReached ==
    /\ has_speech
    /\ total_bytes >= max_duration_s * BytesPerSecond

\* C32: the max-duration backstop latches.  Once has_speech is true and
\* total_bytes / 3200 >= max_duration_s, should_trigger() is true, and it
\* stays so across every further add_chunk, of speech or of silence, and
\* any passage of time, until get_audio_and_reset() or clear() is called.
C32_BackstopLatches ==
    /\ [](BackstopReached =>
            /\ Triggered
            /\ (op = "should_trigger" => ret = BoolRet(TRUE)))
    /\ [][(BackstopReached /\ ~ResetStep) => BackstopReached']_vars

\* The backstop was passed with two speech fragments; a silence fragment
\* was added after it, less than silence_threshold_ms ago, and
\* should_trigger() has answered true.
C32_Witness ==
    /\ op = "should_trigger"
    /\ ret = BoolRet(TRUE)
    /\ chunks = <<Loud, Long, Quiet>>
    /\ silence_start_time # None
    /\ now - silence_start_time < silence_threshold_ms

----------------------------------------------------------------------------
\* C33: an empty chunk list implies the Idle state (has_speech false,
\* silence_start_time None, total_bytes 0).  Hence get_audio_and_reset() on
\* an empty buffer, which returns empty bytes without calling clear() and
\* without decoding, leaves the buffer Idle; and get_audio_and_reset()
\* called twice in a row returns empty bytes the second time and leaves the
\* state of the first call.
C33_EmptyIsIdle ==
    /\ [](Len(chunks) = 0 => Idle)
    /\ [][(Len(chunks) = 0 /\ op' = "get_audio_and_reset") =>
            /\ ret' = RawBytes(<<>>)
            /\ calls' = <<>>
            /\ Idle']_vars
    /\ [][(op = "get_audio_and_reset" /\ op' = "get_audio_and_reset") =>
            /\ ret' = RawBytes(<<>>)
            /\ vad_vars' = vad_vars]_vars

\* get_audio_and_reset() has answered on an empty buffer, some time after
\* the buffer was created: nothing was decoded and the buffer is Idle.
C33_Witness ==
    /\ op = "get_audio_and_reset"
    /\ ret = RawBytes(<<>>)
    /\ calls = <<>>
    /\ now > 0
    /\ Idle

----------------------------------------------------------------------------
\* The operations that only answer.
Queries ==
    {"should_trigger", "get_duration", "get_chunk_count", "is_ready",
     "is_full", "AudioBuffer.get_duration", "AudioBuffer.get_chunk_count",
     "get_audio"}

\* C34: the query operations leave the buffers as they were.  VADBuffer's
\* should_trigger, get_duration and get_chunk_count change none of chunks,
\* total_bytes, has_speech and silence_start_time; AudioBuffer's is_ready,
\* is_full, get_duration, get_chunk_count and get_audio change neither
\* chunks nor total_duration, so get_audio returns the assembled audio
\* without draining the buffer.
C34_QueriesChangeNothing ==
    [][op' \in Queries =>
        /\ chunks' = chunks
        /\ total_bytes' = total_bytes
        /\ has_speech' = has_speech
        /\ silence_start_time' = silence_start_time
        /\ ab_chunks' = ab_chunks
        /\ total_duration' = total_duration]_vars

\* get_audio() has returned the decoded audio of two fragments, which the
\* buffer still holds.
C34_Witness ==
    /\ op = "get_audio"
    /\ ret.kind = "wav"
    /\ Len(ab_chunks) = 2
    /\ total_duration = SumLen(ab_chunks)
    /\ total_duration > 0

----------------------------------------------------------------------------
\* The fragment added last is speech and the backstop is not reached.
SpeechLast ==
    /\ buffer = "vad"
    /\ Len(chunks) > 0
    /\ ~is_silence(chunks[Len(chunks)])
    /\ total_bytes < max_duration_s * BytesPerSecond

\* C35: when the fragment added last was classified as speech and
\* total_bytes / 3200 < max_duration_s, no silence run is pending and
\* should_trigger() is false at every later time until another fragment is
\* added: the passage of time starts no silence run, only the arrival of a
\* silence fragment does.
C35_NoTriggerWithoutSilenceFragment ==
    /\ [](SpeechLast =>
            /\ silence_start_time = None
            /\ ~Triggered
            /\ (op = "should_trigger" => ret = BoolRet(FALSE)))
    /\ [][op' \in {"tick", "should_trigger"} =>
            (silence_start_time = None => silence_start_time' = None)]_vars

\* Only a speech fragment is held, the clock has passed
\* silence_threshold_ms, and should_trigger() has answered false.
C35_Witness ==
    /\ op = "should_trigger"
    /\ ret = BoolRet(FALSE)
    /\ chunks = <<Loud>>
    /\ now >= silence_threshold_ms

----------------------------------------------------------------------------
\* C39: transcribe and transcribe_sync leave no temporary audio file
\* behind.  On every path on which the temporary .wav file was created, a
\* successful transcription, a failure of the model and a failure while
\* the audio bytes are written to the file, the file is gone when the call
\* returns or raises.
C39_NoTempFileLeft ==
    op \in Transcribes => temp_files = {}

----------------------------------------------------------------------------
\* ModelManager (checked under SpecManager).

\* The step in which the except clause of a get method ends the call of t.
Failing(t) ==
    /\ mm_threads[t].pc = "except"
    /\ mm_threads'[t] = Idling

\* The values a cached model attribute takes: None, deleted, or a model
\* whose constructor has returned.
Cacheable == {None, Absent} \cup 1..built.total

\* C36: when loading a model fails inside get_stt_model() or
\* get_tts_model(), called directly or from preload_models(), the error is
\* raised to the caller, the cached model is None, models_loaded is not set
\* and nothing counts as constructed; a later get call that finds None
\* attempts the load again; what is cached is never a model whose
\* constructor did not return, and models_loaded is set only by a
\* preload_models() that returns normally.
C36_FailedLoadLeavesNothing ==
    /\ [][\A t \in Threads : Failing(t) =>
            /\ op' = method_of(mm_threads[t])
            /\ raised' = "LoadError"
            /\ ret' = NoRet
            /\ mm'[mm_threads[t].kind] = None
            /\ mm'.models_loaded = mm.models_loaded
            /\ built' = built]_vars
    /\ [][\A t \in Threads :
            (/\ mm_threads[t].pc = "construct"
             /\ mm_threads'[t] # mm_threads[t]
             /\ built' = built) => mm_threads'[t].pc = "except"]_vars
    /\ [][\A t \in Threads :
            (/\ mm_threads[t].pc = "check"
             /\ mm_threads'[t] # mm_threads[t]
             /\ voice_enabled
             /\ mm[mm_threads[t].kind] = None) =>
                mm_threads'[t].pc = "construct"]_vars
    /\ [][(mm'.models_loaded /\ ~mm.models_loaded) =>
            (op' = "preload_models" /\ raised' = "none")]_vars
    /\ [](\A k \in Kinds : mm[k] \in Cacheable)
    /\ []((op = "get_stt_model" /\ raised = "LoadError") => mm.stt = None)
    /\ []((op = "get_tts_model" /\ raised = "LoadError") => mm.tts = None)

\* preload_models() has raised because the TTS model failed to load after
\* the STT model had loaded: the STT model is cached, the TTS model is None
\* and models_loaded is false.
C36_Witness ==
    /\ op = "preload_models"
    /\ raised = "LoadError"
    /\ mm.stt \in 1..built.total
    /\ mm.tts = None
    /\ ~mm.models_loaded
    /\ \A t \in Threads : mm_threads[t] = Idling

Loaded(k) == mm[k] \notin {None, Absent}

\* No ModelManager method is running.
Quiescent == \A t \in Threads : mm_threads[t] = Idling

\* C37: models_loaded implies that both the STT and the TTS model are
\* loaded, in every state reached through get_stt_model, get_tts_model,
\* preload_models and unload_models, also when preload_models and
\* unload_models run concurrently.  (Stated for the states in which no
\* method is running; the states inside a call are not counted.)
C37_LoadedFlagImpliesModels ==
    (Quiescent /\ mm.models_loaded) => (Loaded("stt") /\ Loaded("tts"))

----------------------------------------------------------------------------
\* Voice disabled (checked under SpecVoice).

\* C38: while voice is disabled, get_stt_model() and get_tts_model()
\* return None at their voice check and preload_models() returns at its
\* own, without effect: nothing is raised, no model is constructed, the
\* cached models and models_loaded are as before, and preload_models()
\* does not go on to load anything.
C38_DisabledVoiceDoesNothing ==
    /\ [][\A t \in Threads :
            (/\ ~voice_enabled
             /\ mm_threads[t].pc = "check"
             /\ ~mm_threads[t].preload
             /\ mm_threads'[t] # mm_threads[t]) =>
                /\ mm_threads'[t] = Idling
                /\ op' = method_of(mm_threads[t])
                /\ ret' = ModelRet(None)
                /\ raised' = "none"
                /\ mm' = mm
                /\ built' = built]_vars
    /\ [][(~voice_enabled /\ op' = "preload_models"
                          /\ mm_threads' = mm_threads) =>
            /\ ret' = NoRet
            /\ raised' = "none"
            /\ mm' = mm
            /\ built' = built]_vars
    /\ [][\A t \in Threads :
            (/\ ~voice_enabled
             /\ mm_threads[t].pc = "idle"
             /\ mm_threads'[t] # mm_threads[t]) =>
                ~mm_threads'[t].preload]_vars

\* Both models were preloaded, voice was disabled afterwards, and
\* get_stt_model() has returned None; the models are still cached.
C38_Witness ==
    /\ op = "get_stt_model"
    /\ ret = ModelRet(None)
    /\ ~voice_enabled
    /\ Loaded("stt")
    /\ Loaded("tts")
    /\ mm.models_loaded

====
